---- MODULE Spec2Model ----
(***************************************************************************)
(* A model of the XNB container decoder (src/src/lib.rs): the 7-bit        *)
(* variable-length integer codec, the container envelope, the reader       *)
(* table, the reference dispatch of read_object and the generic type-name  *)
(* resolver.                                                               *)
(*                                                                         *)
(* Conventions.  A byte is a number in 0..255.  A char is its code point;  *)
(* a String is a sequence of code points.  A u32 is a sequence of 32 bits, *)
(* least significant first, so that the whole 32-bit range is covered      *)
(* without leaving the range of the model checker's integers.  The build   *)
(* profile (overflow checks on: "debug", off: "release") is a parameter of *)
(* the program: arithmetic that overflows panics in the first and wraps in *)
(* the second.                                                             *)
(***************************************************************************)
EXTENDS Integers, Sequences, FiniteSets, TLC

VARIABLES
    build,      \* "debug" | "release": whether overflow checks are compiled in
    T,          \* the asset type the caller requests (XNB<T>)
    rdr,        \* the caller's byte source
    rdr_pos,    \* number of bytes consumed from rdr
    buffer,     \* the payload, once read_to_end has run (XNB::new's buffer)
    cur,        \* position of XNB::new's Cursor in buffer
    pc,         \* the decoder's position in the code
    is_compressed,
    compressed_size,
    num_readers,
    readers,    \* the reference table read so far
    num_shared,
    id,         \* the reference index read by read_object
    name,       \* the reader identity handed to read_with_reader
    generic_args, \* the generic arguments handed to T::try_parse
    result,     \* the outcome of the call, once pc = "done"
    v,          \* SpecVarint: the u32 value whose encoding is decoded
    \* read_tide (tide.rs 170-342):
    buf,        \* the tilemap blob (tide.rs 178)
    buf_pos,    \* position of the Cursor over buf (tide.rs 181)
    map,        \* map_id, map_description, properties, once read
    num_tilesheets,
    tilesheets,
    num_layers,
    layers,
    layer,      \* the header fields of the layer being read
    tiles,
    tileset,    \* the current-tilesheet context: << >> (None) or << id >>
    x_pos,      \* x of the tile scan (tide.rs 273)
    y_pos,      \* y of the tile scan (tide.rs 271)
    interval,
    frame_count,
    frames,
    frame,
    sub_tags,   \* history: the sub-tags read so far inside the current 'A' tile
    \* Texture2d::new (lib.rs 319-337):
    format,
    width,
    height,
    mip_count,
    mip_data,
    typename,   \* the element type name handed to read_dictionary_member
    query       \* the last call of a getter of Tile, with its outcome

vars == << build, T, rdr, rdr_pos, buffer, cur, pc, is_compressed,
           compressed_size, num_readers, readers, num_shared, id, name, generic_args,
           result, v, buf, buf_pos, map, num_tilesheets, tilesheets, num_layers,
           layers, layer, tiles, tileset, x_pos, y_pos, interval, frame_count, frames,
           frame, sub_tags, format, width, height, mip_count, mip_data, typename, query >>

\* The registers of Texture2d::new.
texVars == << format, width, height, mip_count, mip_data >>

\* The registers of read_tide.
tideVars == << buf, buf_pos, map, num_tilesheets, tilesheets, num_layers, layers,
               layer, tiles, tileset, x_pos, y_pos, interval, frame_count, frames, frame,
               sub_tags >>

Builds == {"debug", "release"}

(***************************************************************************)
(* Strings.  Ascii lists the printable characters from code point 32 on    *)
(* (the grave accent, code point 96, is written BACKTICK); Str writes a    *)
(* string literal as its sequence of code points.                          *)
(***************************************************************************)
Ascii ==
    << " ", "!", "\"", "#", "$", "%", "&", "'", "(", ")", "*", "+",
       ",", "-", ".", "/", "0", "1", "2", "3", "4", "5", "6", "7",
       "8", "9", ":", ";", "<", "=", ">", "?", "@", "A", "B", "C",
       "D", "E", "F", "G", "H", "I", "J", "K", "L", "M", "N", "O",
       "P", "Q", "R", "S", "T", "U", "V", "W", "X", "Y", "Z", "[",
       "\\", "]", "^", "_", "BACKTICK", "a", "b", "c", "d", "e", "f", "g",
       "h", "i", "j", "k", "l", "m", "n", "o", "p", "q", "r", "s",
       "t", "u", "v", "w", "x", "y", "z", "{", "|", "}", "~" >>

Ord(c) == 31 + (CHOOSE i \in 1..Len(Ascii) : Ascii[i] = c)

Str(s) == [i \in 1..Len(s) |-> Ord(s[i])]

(***************************************************************************)
(* 32-bit unsigned integers as bit sequences (index i holds bit i-1).      *)
(***************************************************************************)
U32Zero == [i \in 1..32 |-> 0]

\* The u32 whose set bits are the bit numbers in S (S a subset of 0..31).
U32OfBits(S) == [i \in 1..32 |-> IF (i - 1) \in S THEN 1 ELSE 0]

\* The u32 of a number n in 0..2^31-1.
U32OfNat(n) == [i \in 1..32 |-> IF i = 32 THEN 0 ELSE (n \div 2^(i - 1)) % 2]

\* Whether the u32 fits the non-negative range of a 32-bit signed integer.
U32IsSmall(x) == x[32] = 0

RECURSIVE U32Low(_, _)
\* The number held by bits 0..k-1 of x (k <= 31).
U32Low(x, k) == IF k = 0 THEN 0 ELSE x[k] * 2^(k - 1) + U32Low(x, k - 1)

\* The number of a u32 that fits 31 bits.
U32ToNat(x) == U32Low(x, 31)

\* i < x for a number i and a u32 x: the bound test of a loop over 0..x.
NatLtU32(i, x) == x[32] = 1 \/ i < U32ToNat(x)

\* a | b
U32Or(a, b) == [i \in 1..32 |-> IF a[i] = 1 \/ b[i] = 1 THEN 1 ELSE 0]

\* (n as u32) << sh for a number n in 0..255 and 0 <= sh < 32: the bits
\* shifted past bit 31 are dropped.
U32ShlByte(n, sh) ==
    [i \in 1..32 |-> IF i - 1 >= sh /\ i - 1 - sh < 8
                     THEN (n \div 2^(i - 1 - sh)) % 2
                     ELSE 0]

\* byteorder's read_u32::<LittleEndian> of four bytes.
U32OfLeBytes(b0, b1, b2, b3) ==
    [i \in 1..32 |->
        LET byte == IF i <= 8 THEN b0 ELSE IF i <= 16 THEN b1
                    ELSE IF i <= 24 THEN b2 ELSE b3
        IN (byte \div 2^((i - 1) % 8)) % 2]

(***************************************************************************)
(* Outcomes of a call: Ok(value), Err(error) or a panic (the process       *)
(* unwinds; no value and no Error reaches the caller).  pos is the number  *)
(* of bytes the call has consumed from its reader when it ends.            *)
(***************************************************************************)
Ok(val, p)    == [kind |-> "Ok", value |-> val, pos |-> p]
Err(e, p)     == [kind |-> "Err", error |-> e, pos |-> p]
Panic(msg, p) == [kind |-> "Panic", message |-> msg, pos |-> p]

\* The members of enum Error that the modelled code constructs.
ErrIo                 == [tag |-> "Io"]
ErrVoid               == [tag |-> "Void"]
ErrCompressedXnb      == [tag |-> "CompressedXnb"]
ErrReaderMismatch(found, expected) ==
    [tag |-> "ReaderMismatch", found |-> found, expected |-> expected]

(***************************************************************************)
(* read_7bit_encoded_int (lib.rs 473-484).                                 *)
(***************************************************************************)
\* A plausible slip: the offset advanced by a whole byte.
NextBitsReadByte(bits_read) == bits_read + 8

\* bits_read += 7
NextBitsRead(bits_read) == bits_read + 7

RECURSIVE read_7bit_loop(_, _, _, _, _)
\* The loop from the state (result, bits_read) with the reader at position p
\* of the byte sequence b.  A shift by 32 or more panics when overflow checks
\* are compiled in and shifts by the amount modulo 32 otherwise.
read_7bit_loop(bld, b, p, res, bits_read) ==
    IF p >= Len(b) THEN Err(ErrIo, Len(b))
    ELSE LET value == b[p + 1]
         IN IF bits_read >= 32 /\ bld = "debug"
            THEN Panic("attempt to shift left with overflow", p + 1)
            ELSE LET res2 == U32Or(res, U32ShlByte(value % 128, bits_read % 32))
                 IN IF value \div 128 = 0
                    THEN Ok(res2, p + 1)
                    ELSE read_7bit_loop(bld, b, p + 1, res2,
                                        NextBitsRead(bits_read))

read_7bit_encoded_int(bld, b, p) == read_7bit_loop(bld, b, p, U32Zero, 0)

(***************************************************************************)
(* Fixed-width reads (byteorder's ReadBytesExt over read_exact): a short   *)
(* read is an Io error and leaves the reader at the end of its bytes.      *)
(***************************************************************************)
read_u8(b, p) ==
    IF p >= Len(b) THEN Err(ErrIo, Len(b)) ELSE Ok(b[p + 1], p + 1)

read_u32(b, p) ==
    IF p + 4 > Len(b) THEN Err(ErrIo, Len(b))
    ELSE Ok(U32OfLeBytes(b[p + 1], b[p + 2], b[p + 3], b[p + 4]), p + 4)

\* The i32 is kept as its 32-bit two's complement pattern.
read_i32(b, p) == read_u32(b, p)

(***************************************************************************)
(* read_string / read_string_with_length (lib.rs 457-470).  Each byte is   *)
(* pushed as the char of the same code point; String::len is the length of *)
(* the UTF-8 encoding, two bytes for a code point of 128 or more.          *)
(***************************************************************************)
\* String::len: one byte for a code point below 128, two for the others.
Utf8Len(s) == Len(s) + Cardinality({i \in 1..Len(s) : s[i] >= 128})

read_string_with_length(b, p, len) ==
    IF NatLtU32(Len(b) - p, len) THEN Err(ErrIo, Len(b))
    ELSE LET n == U32ToNat(len)
             s == SubSeq(b, p + 1, p + n)
         IN IF Utf8Len(s) # n
            THEN Panic("assertion failed: s.len() == len", p + n)
            ELSE Ok(s, p + n)

read_string(bld, b, p) ==
    LET len == read_7bit_encoded_int(bld, b, p)
    IN IF len.kind # "Ok" THEN len
       ELSE read_string_with_length(b, len.pos, len.value)

(***************************************************************************)
(* generic_types_from_reader (lib.rs 18-51) and the bare identity of       *)
(* read_with_reader (lib.rs 191).  The identities are ASCII, for which     *)
(* byte offsets and char indices coincide.                                 *)
(***************************************************************************)
Backtick == Ord("BACKTICK")
Comma    == Ord(",")
LBracket == Ord("[")
RBracket == Ord("]")

RECURSIVE SplitAt(_, _)
\* str::split(c): the pieces of s between the occurrences of c.
SplitAt(s, c) ==
    IF \A i \in 1..Len(s) : s[i] # c THEN << s >>
    ELSE LET k == CHOOSE i \in 1..Len(s) :
                      s[i] = c /\ \A j \in 1..(i - 1) : s[j] # c
         IN << SubSeq(s, 1, k - 1) >> \o SplitAt(SubSeq(s, k + 1, Len(s)), c)

\* s.split(',').next().unwrap()
FirstBeforeComma(s) == SplitAt(s, Comma)[1]

\* name.split(BACKTICK).next().unwrap().split(',').next().unwrap()
bare_identity(nm) == FirstBeforeComma(SplitAt(nm, Backtick)[1])

offset == 2

\* The body of the for loop of lines 27-40 for the char at index i
\* (0-based) of the sliced text t, on the loop's count, starts and ends.
scan_step(t, i, st) ==
    LET c == t[i + 1]
        opens  == c = LBracket
        closes == c = RBracket
        starts2 == IF opens /\ st.count = 0 THEN Append(st.starts, i + 1)
                   ELSE st.starts
        count2 == IF opens THEN st.count + 1
                  ELSE IF closes THEN st.count - 1 ELSE st.count
        ends2 == IF closes /\ count2 = 0 THEN Append(st.ends, i) ELSE st.ends
    IN [count |-> count2, starts |-> starts2, ends |-> ends2]

RECURSIVE scan_brackets(_, _, _, _)
\* The for loop over the chars lo..hi-1 of t, in order, from the state st.
\* The range is halved, and the state after the first half is evaluated
\* (the test on left.count) before the second half is entered, which keeps
\* the evaluation of a long identity shallow.
scan_brackets(t, lo, hi, st) ==
    IF hi <= lo THEN st
    ELSE IF hi = lo + 1 THEN scan_step(t, lo, st)
    ELSE LET mid == (lo + hi) \div 2
             left == scan_brackets(t, lo, mid, st)
         IN IF left.count = left.count
            THEN scan_brackets(t, mid, hi, left)
            ELSE left

\* The outcome of generic_types_from_reader: Ok(the argument names) or the
\* panic of the slice of line 27 or of the assertion of line 41.  The
\* function reads no bytes; pos is 0.
generic_types_from_reader(nm) ==
    LET parts == SplitAt(nm, Backtick)
    IN IF Len(parts) < 2 THEN Ok(<< >>, 0)
       ELSE LET args == parts[2]
            IN IF Len(args) < offset
               THEN Panic("byte index 2 is out of bounds", 0)
               ELSE LET sliced == SubSeq(args, offset + 1, Len(args))
                        sc == scan_brackets(sliced, 0, Len(sliced),
                                  [count |-> 0, starts |-> << >>,
                                   ends |-> << >>])
                    IN IF Len(sc.starts) # Len(sc.ends)
                       THEN Panic("assertion failed: starts.len() == ends.len()", 0)
                       ELSE Ok([k \in 1..Len(sc.starts) |->
                                   FirstBeforeComma(
                                       SubSeq(args, sc.starts[k] + offset + 1,
                                              sc.ends[k] + offset))], 0)

READER_Texture2d ==
    Str(<< "M", "i", "c", "r", "o", "s", "o", "f", "t", ".", "X", "n", "a", ".",
         "F", "r", "a", "m", "e", "w", "o", "r", "k", ".", "C", "o", "n", "t",
         "e", "n", "t", ".", "T", "e", "x", "t", "u", "r", "e", "2", "D", "R",
         "e", "a", "d", "e", "r" >>)

READER_Vec ==
    Str(<< "M", "i", "c", "r", "o", "s", "o", "f", "t", ".", "X", "n", "a", ".",
         "F", "r", "a", "m", "e", "w", "o", "r", "k", ".", "C", "o", "n", "t",
         "e", "n", "t", ".", "A", "r", "r", "a", "y", "R", "e", "a", "d", "e",
         "r" >>)

READER_Dictionary ==
    Str(<< "M", "i", "c", "r", "o", "s", "o", "f", "t", ".", "X", "n", "a", ".",
         "F", "r", "a", "m", "e", "w", "o", "r", "k", ".", "C", "o", "n", "t",
         "e", "n", "t", ".", "D", "i", "c", "t", "i", "o", "n", "a", "r", "y",
         "R", "e", "a", "d", "e", "r" >>)

READER_Rectangle ==
    Str(<< "M", "i", "c", "r", "o", "s", "o", "f", "t", ".", "X", "n", "a", ".",
         "F", "r", "a", "m", "e", "w", "o", "r", "k", ".", "C", "o", "n", "t",
         "e", "n", "t", ".", "R", "e", "c", "t", "a", "n", "g", "l", "e", "R",
         "e", "a", "d", "e", "r" >>)

READER_Vector3 ==
    Str(<< "M", "i", "c", "r", "o", "s", "o", "f", "t", ".", "X", "n", "a",
         ".", "F", "r", "a", "m", "e", "w", "o", "r", "k", ".", "C", "o",
         "n", "t", "e", "n", "t", ".", "V", "e", "c", "t", "o", "r", "3",
         "R", "e", "a", "d", "e", "r" >>)

READER_i32 ==
    Str(<< "M", "i", "c", "r", "o", "s", "o", "f", "t", ".", "X", "n", "a", ".",
         "F", "r", "a", "m", "e", "w", "o", "r", "k", ".", "C", "o", "n", "t",
         "e", "n", "t", ".", "I", "n", "t", "3", "2", "R", "e", "a", "d", "e",
         "r" >>)

READER_char ==
    Str(<< "M", "i", "c", "r", "o", "s", "o", "f", "t", ".", "X", "n", "a", ".",
         "F", "r", "a", "m", "e", "w", "o", "r", "k", ".", "C", "o", "n", "t",
         "e", "n", "t", ".", "C", "h", "a", "r", "R", "e", "a", "d", "e", "r" >>)

READER_String ==
    Str(<< "M", "i", "c", "r", "o", "s", "o", "f", "t", ".", "X", "n", "a", ".",
         "F", "r", "a", "m", "e", "w", "o", "r", "k", ".", "C", "o", "n", "t",
         "e", "n", "t", ".", "S", "t", "r", "i", "n", "g", "R", "e", "a", "d",
         "e", "r" >>)

(***************************************************************************)
(* The Parse trait (lib.rs 53-184) for the requested types modelled.       *)
(***************************************************************************)
Types == {"i32", "char", "String"}

\* T::READER
READER(Ty) ==
    CASE Ty = "i32"    -> READER_i32
      [] Ty = "char"   -> READER_char
      [] Ty = "String" -> READER_String
      [] Ty = "Rectangle" -> READER_Rectangle
      [] Ty = "Vector3"   -> READER_Vector3

RECURSIVE read_u32s(_, _, _, _)
\* n consecutive 32-bit little-endian reads, the values in order: the four
\* read_i32 of Rectangle::new (lib.rs 387-394) and the three read_f32 of
\* Vector3 (lib.rs 178-182), each kept as its 32-bit pattern.
read_u32s(b, p, n, vals) ==
    IF n = 0 THEN Ok(vals, p)
    ELSE IF read_u32(b, p).kind # "Ok" THEN read_u32(b, p)
    ELSE read_u32s(b, p + 4, n - 1, Append(vals, read_u32(b, p).value))

\* T::try_parse(rdr, readers, args) with the reader at position p of b.
try_parse(Ty, bld, b, p, rds, targs) ==
    CASE Ty = "i32"    -> read_i32(b, p)
      [] Ty = "char"   -> read_u8(b, p)
      [] Ty = "String" -> read_string(bld, b, p)
      [] Ty = "Rectangle" -> read_u32s(b, p, 4, << >>)
      [] Ty = "Vector3"   -> read_u32s(b, p, 3, << >>)

\* name -> (main, args) as read_with_reader computes them (lib.rs 191-192):
\* the bare identity cannot fail; the argument scan may panic.
resolve(nm) ==
    LET a == generic_types_from_reader(nm)
    IN IF a.kind # "Ok" THEN a
       ELSE Ok([main |-> bare_identity(nm), args |-> a.value], 0)

(***************************************************************************)
(* XNB::from_buffer (lib.rs 502-538), XNB::decompress (487-494),           *)
(* XNB::from_uncompressed_buffer (496-500), XNB::new (404-421),            *)
(* read_object (423-427), read_with_reader (186-195), Parse::parse (60-73) *)
(* as the steps of one decode call.                                        *)
(***************************************************************************)
Running == [kind |-> "Running"]

\* A u32 register that has not been read yet.
None == << >>

Magic == Str(<< "X", "N", "B" >>)

\* The platform list with one more letter accepted.
PlatformsWithAndroid == {Ord("w"), Ord("m"), Ord("x"), Ord("a")}

\* ['w', 'm', 'x'] (lib.rs 509)
Platforms == {Ord("w"), Ord("m"), Ord("x")}

Version == 5

\* compressed_size as usize - 14 overflows.
SubOverflows(size) == U32IsSmall(size) /\ U32ToNat(size) < 14

\* The registers of XNB::new and read_object, left alone by the envelope.
newVars == << buffer, cur, num_readers, readers, num_shared, id, name, generic_args >>

\* The call returns (or unwinds) with outcome r.
Finish(r) == pc' = "done" /\ result' = r

\* let mut header = vec![0, 0, 0]
MagicLen == 3

\* A plausible slip: only the first two bytes compared.
HeaderStartsLikeMagic(header) ==
    header[1] = Magic[1] /\ header[2] = Magic[2]

\* header == b"XNB"
HeaderIsMagic(header) == header = Magic

ReadMagic ==
    /\ pc = "magic"
    /\ IF Len(rdr) < rdr_pos + MagicLen
       THEN /\ rdr_pos' = Len(rdr)
            /\ Finish(Err(ErrIo, Len(rdr)))
       ELSE /\ rdr_pos' = rdr_pos + MagicLen
            /\ IF ~HeaderIsMagic(SubSeq(rdr, rdr_pos + 1, rdr_pos + MagicLen))
               THEN Finish(Err(ErrVoid, rdr_pos'))
               ELSE pc' = "target" /\ UNCHANGED result
    /\ UNCHANGED << build, T, rdr, is_compressed, compressed_size, v >>
    /\ UNCHANGED newVars
    /\ UNCHANGED << tideVars, texVars, typename, query >>

ReadTarget ==
    /\ pc = "target"
    /\ LET target == read_u8(rdr, rdr_pos)
       IN /\ rdr_pos' = target.pos
          /\ IF target.kind # "Ok" THEN Finish(target)
             ELSE IF target.value \notin Platforms
             THEN Finish(Err(ErrVoid, target.pos))
             ELSE pc' = "version" /\ UNCHANGED result
    /\ UNCHANGED << build, T, rdr, is_compressed, compressed_size, v >>
    /\ UNCHANGED newVars
    /\ UNCHANGED << tideVars, texVars, typename, query >>

ReadVersion ==
    /\ pc = "version"
    /\ LET version == read_u8(rdr, rdr_pos)
       IN /\ rdr_pos' = version.pos
          /\ IF version.kind # "Ok" THEN Finish(version)
             ELSE IF version.value # Version
             THEN Finish(Err(ErrVoid, version.pos))
             ELSE pc' = "flag" /\ UNCHANGED result
    /\ UNCHANGED << build, T, rdr, is_compressed, compressed_size, v >>
    /\ UNCHANGED newVars
    /\ UNCHANGED << tideVars, texVars, typename, query >>

ReadFlag ==
    /\ pc = "flag"
    /\ LET flag == read_u8(rdr, rdr_pos)
       IN /\ rdr_pos' = flag.pos
          /\ IF flag.kind # "Ok"
             THEN Finish(flag) /\ UNCHANGED is_compressed
             ELSE /\ is_compressed' = (flag.value \div 128 # 0)
                  /\ pc' = "compressed_size"
                  /\ UNCHANGED result
    /\ UNCHANGED << build, T, rdr, compressed_size, v >>
    /\ UNCHANGED newVars
    /\ UNCHANGED << tideVars, texVars, typename, query >>

ReadCompressedSize ==
    /\ pc = "compressed_size"
    /\ LET size == read_u32(rdr, rdr_pos)
       IN /\ rdr_pos' = size.pos
          /\ IF size.kind # "Ok"
             THEN Finish(size) /\ UNCHANGED compressed_size
             ELSE /\ compressed_size' = size.value
                  /\ pc' = IF is_compressed THEN "decompress"
                           ELSE "from_uncompressed_buffer"
                  /\ UNCHANGED result
    /\ UNCHANGED << build, T, rdr, is_compressed, v >>
    /\ UNCHANGED newVars
    /\ UNCHANGED << tideVars, texVars, typename, query >>

\* The compressed branch (lib.rs 527-534): decompress always fails, so the
\* decode of its buffer (line 534) is never reached.
Decompress ==
    /\ pc = "decompress"
    /\ LET decompressed_size == read_u32(rdr, rdr_pos)
       IN /\ rdr_pos' = decompressed_size.pos
          /\ IF decompressed_size.kind # "Ok" THEN Finish(decompressed_size)
             ELSE IF SubOverflows(compressed_size) /\ build = "debug"
             THEN Finish(Panic("attempt to subtract with overflow",
                               decompressed_size.pos))
             ELSE Finish(Err(ErrCompressedXnb, decompressed_size.pos))
    /\ UNCHANGED << build, T, rdr, is_compressed, compressed_size, v >>
    /\ UNCHANGED newVars
    /\ UNCHANGED << tideVars, texVars, typename, query >>

\* read_to_end, then XNB::new's Cursor over the bytes read.
FromUncompressedBuffer ==
    /\ pc = "from_uncompressed_buffer"
    /\ buffer' = SubSeq(rdr, rdr_pos + 1, Len(rdr))
    /\ rdr_pos' = Len(rdr)
    /\ cur' = 0
    /\ pc' = "num_readers"
    /\ UNCHANGED << build, T, rdr, is_compressed, compressed_size, v,
                    num_readers, readers, num_shared, id, name, generic_args, result >>
    /\ UNCHANGED << tideVars, texVars, typename, query >>

\* The registers of the envelope, left alone by XNB::new and read_object.
envVars == << build, T, rdr, rdr_pos, buffer, is_compressed, compressed_size, v >>

ReadNumReaders ==
    /\ pc = "num_readers"
    /\ LET n == read_7bit_encoded_int(build, buffer, cur)
       IN /\ cur' = n.pos
          /\ IF n.kind # "Ok"
             THEN Finish(n) /\ UNCHANGED num_readers
             ELSE /\ num_readers' = n.value
                  /\ pc' = IF NatLtU32(0, n.value) THEN "reader"
                           ELSE "num_shared"
                  /\ UNCHANGED result
    /\ UNCHANGED << readers, num_shared, id, name, generic_args >>
    /\ UNCHANGED envVars
    /\ UNCHANGED << tideVars, texVars, typename, query >>

\* One turn of the loop of lines 409-415.
ReadReader ==
    /\ pc = "reader"
    /\ LET nm == read_string(build, buffer, cur)
           version == read_i32(buffer, nm.pos)
       IN IF nm.kind # "Ok"
          THEN cur' = nm.pos /\ Finish(nm) /\ UNCHANGED readers
          ELSE IF version.kind # "Ok"
          THEN cur' = version.pos /\ Finish(version) /\ UNCHANGED readers
          ELSE /\ cur' = version.pos
               /\ readers' = Append(readers, [name |-> nm.value,
                                              _version |-> version.value])
               /\ pc' = IF NatLtU32(Len(readers'), num_readers) THEN "reader"
                        ELSE "num_shared"
               /\ UNCHANGED result
    /\ UNCHANGED << num_readers, num_shared, id, name, generic_args >>
    /\ UNCHANGED envVars
    /\ UNCHANGED << tideVars, texVars, typename, query >>

\* Lines 416-417: the count is asserted to be zero.
ReadNumShared ==
    /\ pc = "num_shared"
    /\ LET n == read_7bit_encoded_int(build, buffer, cur)
       IN /\ cur' = n.pos
          /\ IF n.kind # "Ok"
             THEN Finish(n) /\ UNCHANGED num_shared
             ELSE /\ num_shared' = n.value
                  /\ IF n.value # U32Zero
                     THEN Finish(Panic("assertion failed: num_shared == 0",
                                       n.pos))
                     ELSE pc' = "read_object" /\ UNCHANGED result
    /\ UNCHANGED << num_readers, readers, id, name, generic_args >>
    /\ UNCHANGED envVars
    /\ UNCHANGED << tideVars, texVars, typename, query >>

\* read_object (lib.rs 423-426) up to the table lookup.  id is a usize; the
\* table holds fewer than 2^31 entries.
ReadObject ==
    /\ pc = "read_object"
    /\ LET n == read_7bit_encoded_int(build, buffer, cur)
       IN /\ cur' = n.pos
          /\ IF n.kind # "Ok"
             THEN Finish(n) /\ UNCHANGED << id, name >>
             ELSE /\ id' = n.value
                  /\ IF n.value = U32Zero
                     THEN /\ Finish(Panic("assertion failed: id != 0", n.pos))
                          /\ UNCHANGED name
                     ELSE IF NatLtU32(Len(readers), n.value)
                     THEN /\ Finish(Panic("index out of bounds", n.pos))
                          /\ UNCHANGED name
                     ELSE /\ name' = readers[U32ToNat(n.value)].name
                          /\ pc' = "read_with_reader"
                          /\ UNCHANGED result
    /\ UNCHANGED << num_readers, readers, num_shared, generic_args >>
    /\ UNCHANGED envVars
    /\ UNCHANGED << tideVars, texVars, typename, query >>

\* read_with_reader (lib.rs 186-195) and the check of Parse::parse (66-71).
ReadWithReader ==
    /\ pc = "read_with_reader"
    /\ LET r == resolve(name)
       IN IF r.kind # "Ok"
          THEN Finish(Panic(r.message, cur)) /\ UNCHANGED generic_args
          ELSE IF r.value.main # READER(T)
          THEN /\ Finish(Err(ErrReaderMismatch(r.value.main, READER(T)), cur))
               /\ UNCHANGED generic_args
          ELSE /\ generic_args' = r.value.args
               /\ pc' = "try_parse"
               /\ UNCHANGED result
    /\ UNCHANGED << cur, num_readers, readers, num_shared, id, name >>
    /\ UNCHANGED envVars
    /\ UNCHANGED << tideVars, texVars, typename, query >>

\* Self::try_parse(rdr, readers, args) (lib.rs 72), then Ok(XNB { primary }).
TryParse ==
    /\ pc = "try_parse"
    /\ LET asset == try_parse(T, build, buffer, cur, readers, generic_args)
       IN cur' = asset.pos /\ Finish(asset)
    /\ UNCHANGED << num_readers, readers, num_shared, id, name, generic_args >>
    /\ UNCHANGED envVars
    /\ UNCHANGED << tideVars, texVars, typename, query >>

(***************************************************************************)
(* SpecVarint: read_7bit_encoded_int applied to the minimal base-128       *)
(* encoding of a u32, followed by bytes that are not part of it.           *)
(***************************************************************************)
\* The longest run of bytes that follows the encoding in the reader.
MaxTrail == 1

\* The 7-bit group k (0-based) of x; group 4 holds the four bits 28..31.
Group7(x, k) ==
    LET bit(j) == IF 7 * k + j < 32 THEN x[7 * k + j + 1] ELSE 0
    IN bit(0) + 2 * bit(1) + 4 * bit(2) + 8 * bit(3) + 16 * bit(4)
       + 32 * bit(5) + 64 * bit(6)

\* The minimal little-endian base-128 encoding of x: 7 payload bits a byte,
\* bit 7 set on every byte but the last, no trailing zero group.
Encode7Bit(x) ==
    LET used == {1} \cup {k + 1 : k \in {j \in 0..4 : Group7(x, j) # 0}}
        n == CHOOSE m \in used : \A k \in used : k <= m
    IN [k \in 1..n |-> Group7(x, k - 1) + (IF k < n THEN 128 ELSE 0)]

\* 2^k - 1 and 2^k for every k, the all-ones value, and mixed patterns.
VarintValues ==
    {U32OfBits(0..(k - 1)) : k \in 0..32}
    \cup {U32OfBits({k}) : k \in 0..31}
    \cup {U32OfBits({0, k}) : k \in 1..31}
    \cup {U32OfBits({k, 31}) : k \in 0..30}

TrailByte == {0, 127, 128, 255}

RECURSIVE SeqsUpTo(_, _)
\* The sequences over S of length at most n.
SeqsUpTo(S, n) ==
    IF n = 0 THEN {<< >>}
    ELSE LET shorter == SeqsUpTo(S, n - 1)
         IN shorter \cup {Append(s, x) : s \in shorter, x \in S}

\* The registers a specification does not use.
IdleEnvelope ==
    /\ T = "i32"
    /\ rdr = << >>
    /\ rdr_pos = 0
    /\ is_compressed = FALSE
    /\ compressed_size = None

IdleTable ==
    /\ num_readers = None
    /\ readers = << >>
    /\ num_shared = None
    /\ id = None
    /\ generic_args = << >>

IdleTide ==
    /\ buf = << >>
    /\ buf_pos = 0
    /\ map = None
    /\ num_tilesheets = None
    /\ tilesheets = << >>
    /\ num_layers = None
    /\ layers = << >>
    /\ layer = None
    /\ tiles = << >>
    /\ tileset = << >>
    /\ x_pos = None
    /\ y_pos = None
    /\ interval = None
    /\ frame_count = None
    /\ frames = << >>
    /\ frame = 0
    /\ sub_tags = 0

IdleTexture ==
    /\ format = None
    /\ width = None
    /\ height = None
    /\ mip_count = None
    /\ mip_data = << >>

\* No read_dictionary_member call is in progress.
IdleMember == typename = << >>

\* No getter of Tile has been called.
IdleTile == query = << >>

InitVarint ==
    /\ IdleTile
    /\ IdleMember
    /\ build \in Builds
    /\ v \in VarintValues
    /\ \E trail \in SeqsUpTo(TrailByte, MaxTrail) : buffer = Encode7Bit(v) \o trail
    /\ cur = 0
    /\ pc = "varint"
    /\ result = Running
    /\ name = << >>
    /\ IdleEnvelope
    /\ IdleTable
    /\ IdleTide
    /\ IdleTexture

ReadVarint ==
    /\ pc = "varint"
    /\ result' = read_7bit_encoded_int(build, buffer, cur)
    /\ cur' = result'.pos
    /\ pc' = "done"
    /\ UNCHANGED << build, T, rdr, rdr_pos, buffer, is_compressed,
                    compressed_size, num_readers, readers, num_shared, id,
                    name, generic_args, v >>
    /\ UNCHANGED << tideVars, texVars, typename, query >>

NextVarint == ReadVarint

SpecVarint == InitVarint /\ [][NextVarint]_vars

\* C1: for every u32 value v, read_7bit_encoded_int applied to the minimal
\* base-128 encoding of v returns exactly v and consumes exactly the bytes
\* of that encoding (1 to 5 of them), whatever follows it in the reader.
C1_VarintRoundTrip ==
    pc = "done" =>
        /\ result.kind = "Ok"
        /\ result.value = v
        /\ result.pos = Len(Encode7Bit(v))
        /\ cur = Len(Encode7Bit(v))
        /\ Len(Encode7Bit(v)) \in 1..5

\* A value of the top range, five bytes long, decoded with a byte after it.
C1_Witness ==
    /\ pc = "done"
    /\ v = U32OfBits(0..31)
    /\ Len(Encode7Bit(v)) = 5
    /\ Len(buffer) = 6
    /\ result.kind = "Ok"

(***************************************************************************)
(* Spec: XNB::<T>::from_buffer on a byte source, for both build profiles.  *)
(* The byte sources are containers put together field by field, among them *)
(* wrong and truncated ones.                                               *)
(***************************************************************************)
\* The most entries a reference table of the inputs holds.
MaxReaders == 2

\* The 7-bit encoding of a number, and a length-prefixed string.
Enc7(n) == Encode7Bit(U32OfNat(n))

EncString(s) == Enc7(Len(s)) \o s

\* One entry of the reference table: the identity and a version of 0.
EncReader(nm) == EncString(nm) \o << 0, 0, 0, 0 >>

RECURSIVE Concat(_)
Concat(ss) == IF ss = << >> THEN << >> ELSE Head(ss) \o Concat(Tail(ss))

\* Reader identities: the plain ones, an assembly-qualified one, a generic
\* one, malformed generic segments, and one with a byte above 127.
NamePool ==
    { READER_i32,
      READER_char,
      READER_i32 \o Str(<< ",", " ", "A", "s", "m" >>),
      READER_Vec \o Str(<< "BACKTICK", "1", "[", "[", "S", "y", "s", "t", "e",
                           "m", ".", "I", "n", "t", "3", "2", ",", " ", "m",
                           "s", "c", "o", "r", "l", "i", "b", "]", "]" >>),
      Str(<< "F", "o", "o", "BACKTICK" >>),
      Str(<< "F", "o", "o", "BACKTICK", "1", "[", "[", "B", "a", "r", ",",
             "A", "s", "m" >>),
      READER_i32 \o Str(<< "BACKTICK", "1" >>),
      << 70, 200 >> }

\* The identities that tables of more than one entry are made of.
CorePool ==
    { READER_i32, READER_char, Str(<< "F", "o", "o", "BACKTICK" >>) }

Tables == SeqsUpTo(CorePool, MaxReaders) \cup {<< nm >> : nm \in NamePool}

\* The payload: reference table, shared-resource count, reference index,
\* object body.
Payloads ==
    { Enc7(Len(tbl)) \o Concat([k \in 1..Len(tbl) |-> EncReader(tbl[k])])
        \o Enc7(shared) \o Enc7(ix) \o body :
        tbl \in Tables,
        shared \in {0, 1},
        ix \in 0..(MaxReaders + 1),
        body \in {<< >>, << 1, 65, 0, 0 >>} }

SizeBytes ==
    { << 0, 0, 0, 0 >>, << 13, 0, 0, 0 >>, << 14, 0, 0, 0 >>, << 15, 0, 0, 0 >>,
      << 0, 0, 0, 128 >>, << 255, 255, 255, 255 >> }

Headers ==
    { magic \o << target, version, flag >> \o csize :
        magic \in {Magic, Str(<< "X", "N", "A" >>), Str(<< "x", "N", "B" >>)},
        target \in Platforms \cup {Ord("a")},
        version \in {Version, 4},
        flag \in {0, 1, 128, 129},
        csize \in SizeBytes }

GoodHeader == Magic \o << Ord("w"), Version, 0, 0, 0, 0, 0 >>

Prefixes(s) == {SubSeq(s, 1, n) : n \in 0..Len(s)}

XnbInputs ==
    {GoodHeader \o p : p \in Payloads}
    \cup {h \o d \o << 0, 0, 1 >> : h \in Headers,
                                   d \in {<< 0, 0, 0, 0 >>, << 255, 255, 255, 255 >>}}
    \cup Prefixes(GoodHeader \o Enc7(1) \o EncReader(READER_char)
                    \o Enc7(0) \o Enc7(1) \o << 65 >>)
    \cup Prefixes(Magic \o << Ord("x"), Version, 128, 20, 0, 0, 0, 9, 0, 0, 0 >>)
    \cup Prefixes(Str(<< "X", "N", "b" >>) \o << Ord("w"), Version, 0, 0, 0, 0, 0 >>)

Init ==
    /\ IdleTile
    /\ IdleMember
    /\ build \in Builds
    /\ T \in Types
    /\ rdr \in XnbInputs
    /\ rdr_pos = 0
    /\ is_compressed = FALSE
    /\ compressed_size = None
    /\ buffer = << >>
    /\ cur = 0
    /\ pc = "magic"
    /\ result = Running
    /\ name = << >>
    /\ v = None
    /\ IdleTable
    /\ IdleTide
    /\ IdleTexture

Next ==
    \/ ReadMagic
    \/ ReadTarget
    \/ ReadVersion
    \/ ReadFlag
    \/ ReadCompressedSize
    \/ Decompress
    \/ FromUncompressedBuffer
    \/ ReadNumReaders
    \/ ReadReader
    \/ ReadNumShared
    \/ ReadObject
    \/ ReadWithReader
    \/ TryParse

Spec == Init /\ [][Next]_vars

HasMagic == Len(rdr) >= 3 /\ SubSeq(rdr, 1, 3) = Magic

\* C2: from_buffer on a byte source whose first 3 bytes are not the magic
\* "XNB" fails with the header error (Error::Void) and has then consumed
\* exactly 3 bytes of the source: no platform, version, flag or size byte
\* is read.
C2_BadMagicFailsAfterThreeBytes ==
    (pc = "done" /\ Len(rdr) >= 3 /\ ~HasMagic) =>
        /\ result = Err(ErrVoid, 3)
        /\ rdr_pos = 3

\* A source of more than 3 bytes with a wrong magic, after the call.
C2_Witness ==
    /\ pc = "done"
    /\ Len(rdr) > 10
    /\ ~HasMagic
    /\ result.kind = "Err"

\* An otherwise valid header with bit 7 of the flags byte set and both size
\* fields present.
CompressedHeader ==
    /\ Len(rdr) >= 14
    /\ HasMagic
    /\ rdr[4] \in Platforms
    /\ rdr[5] = Version
    /\ rdr[6] \div 128 = 1

\* C3: from_buffer on an otherwise valid header with the compressed flag set
\* and both sizes present fails with Error::CompressedXnb for every value of
\* the two size fields, compressed sizes below 14 included.
C3_CompressedAlwaysUnsupported ==
    (pc = "done" /\ CompressedHeader) =>
        /\ result.kind = "Err"
        /\ result.error = ErrCompressedXnb

\* The part of C3 the code keeps: compressed sizes of 14 and more, and every
\* size when overflow checks are off.
C3_CompressedUnsupportedFrom14 ==
    (pc = "done" /\ CompressedHeader
        /\ (build = "release" \/ ~SubOverflows(compressed_size))) =>
        /\ result.kind = "Err"
        /\ result.error = ErrCompressedXnb

\* C4: a nonzero shared-resource count makes the decode return an
\* UnsupportedSharedResources(count) error value; it does not abort and does
\* not go on to the primary asset.
C4_SharedResourcesIsAnError ==
    (pc = "done" /\ num_shared # None /\ num_shared # U32Zero) =>
        /\ result.kind = "Err"
        /\ result.error = [tag |-> "UnsupportedSharedResources",
                           count |-> num_shared]

\* The outcome "absent" of a reference slot.
Absent == [kind |-> "Ok", value |-> "absent"]

\* C5: read_object, when the reference index it reads is 0, yields "absent"
\* as an ordinary returned outcome, consuming nothing more; it does not
\* abort.
C5_IndexZeroIsAbsent ==
    (pc = "done" /\ id = U32Zero) =>
        /\ result.kind = "Ok"
        /\ result.value = Absent.value

\* C6: read_object, when the reference index it reads is greater than the
\* number of entries of the reference table, fails with an error value
\* returned to the caller.
C6_IndexOutOfRangeIsAnError ==
    (pc = "done" /\ id # None /\ NatLtU32(Len(readers), id)) =>
        result.kind = "Err"

\* The reference index is one of 1..=len.
IndexInRange == id # None /\ id # U32Zero /\ ~NatLtU32(Len(readers), id)

\* C7: for a reference index i in 1..=len, read_object<T> uses the i-th
\* entry of the table in file order; if its bare identity differs from
\* T::READER the decode fails with ReaderMismatch(bare identity, T::READER),
\* T's decode routine is not invoked and no byte of the body is consumed.
C7_MismatchIsReaderMismatch ==
    [][(pc = "read_with_reader" /\ IndexInRange) =>
          /\ name = readers[U32ToNat(id)].name
          /\ bare_identity(name) # READER(T) =>
                /\ pc' = "done"
                /\ result' = Err(ErrReaderMismatch(bare_identity(name),
                                                   READER(T)), cur)
                /\ cur' = cur]_vars

\* The part of C7 the code keeps: entries whose generic segment the
\* resolver accepts.
C7_MismatchWhenResolved ==
    [][(pc = "read_with_reader" /\ IndexInRange
          /\ generic_types_from_reader(name).kind = "Ok") =>
          /\ name = readers[U32ToNat(id)].name
          /\ bare_identity(name) # READER(T) =>
                /\ pc' = "done"
                /\ result' = Err(ErrReaderMismatch(bare_identity(name),
                                                   READER(T)), cur)
                /\ cur' = cur]_vars

(***************************************************************************)
(* SpecResolver: the Type-Name Resolver (the bare identity of              *)
(* read_with_reader and generic_types_from_reader) applied to reader       *)
(* identities: plain, flat generic of every arity up to MaxArity, nested    *)
(* generic, and with brackets missing or in excess.                        *)
(***************************************************************************)
\* The largest number of generic arguments of the flat identities.
MaxArity == 10

\* The decimal numeral of a number in 0..99.
Digits(n) ==
    IF n < 10 THEN << Ord("0") + n >>
    ELSE << Ord("0") + (n \div 10), Ord("0") + (n % 10) >>

RECURSIVE Join(_, _)
\* The strings of ss with sep between them.
Join(ss, sep) ==
    IF Len(ss) = 0 THEN << >>
    ELSE IF Len(ss) = 1 THEN ss[1]
    ELSE ss[1] \o sep \o Join(Tail(ss), sep)

\* The i-th argument name of a flat identity: prefix and the numeral of i.
ArgName(prefix, i) == prefix \o Digits(i)

\* base, BACKTICK, k, "[", "[Arg1" asm "]" sep ... sep "[Argk" asm "]", "]"
FlatName(base, prefix, k, asm, sep) ==
    base \o << Backtick >> \o Digits(k) \o << LBracket >>
      \o Join([i \in 1..k |->
                  << LBracket >> \o ArgName(prefix, i) \o asm \o << RBracket >>],
              sep)
      \o << RBracket >>

Bases == { Str(<< "F", "o", "o" >>), Str(<< "N", ".", "R" >>) }

ArgPrefixes == { Str(<< "T" >>), Str(<< "S", "y", "s", ".", "X" >>) }

\* The assembly qualification that follows an argument name.
Asms ==
    { Str(<< ",", " ", "A", "s", "m" >>),
      Str(<< ",", "A", "s", "m", ",", " ", "V", "=", "1" >>) }

Seps == { Str(<< "," >>), Str(<< ",", " " >>) }

FlatNames ==
    { FlatName(base, prefix, k, asm, sep) :
        base \in Bases, prefix \in ArgPrefixes, k \in 1..MaxArity,
        asm \in Asms, sep \in Seps }

PlainNames ==
    Bases \cup { READER_i32, READER_i32 \o Str(<< ",", " ", "A", "s", "m" >>) }

\* Foo, BACKTICK, 2[[Bar,Asm],[Baz, BACKTICK, 1[[Qux,Asm]],Asm]]
NestedName ==
    Str(<< "F", "o", "o", "BACKTICK", "2", "[", "[", "B", "a", "r", ",", "A",
           "s", "m", "]", ",", "[", "B", "a", "z", "BACKTICK", "1", "[", "[",
           "Q", "u", "x", ",", "A", "s", "m", "]", "]", ",", "A", "s", "m",
           "]", "]" >>)

\* The second argument of NestedName: Baz, BACKTICK, 1[[Qux,Asm]]
NestedArg ==
    Str(<< "B", "a", "z", "BACKTICK", "1", "[", "[", "Q", "u", "x", ",", "A",
           "s", "m", "]", "]" >>)

\* Flat identities of one and two arguments cut short, and with one bracket
\* too many at the end or at the start of the argument list.
SmallFlatNames ==
    { FlatName(base, Str(<< "T" >>), k, Str(<< ",", "A" >>), Str(<< "," >>)) :
        base \in Bases, k \in 1..2 }

BrokenNames ==
    UNION { { SubSeq(nm, 1, n) : n \in 4..(Len(nm) - 1) } : nm \in SmallFlatNames }
    \cup { nm \o << RBracket >> : nm \in SmallFlatNames }
    \cup { nm \o << LBracket >> : nm \in SmallFlatNames }
    \cup { SubSeq(nm, 1, 5) \o << RBracket >> \o SubSeq(nm, 6, Len(nm)) :
             nm \in SmallFlatNames }

ResolverInputs ==
    PlainNames \cup FlatNames \cup {NestedName} \cup BrokenNames

InitResolver ==
    /\ IdleTile
    /\ IdleMember
    /\ build \in Builds
    /\ name \in ResolverInputs
    /\ pc = "resolve"
    /\ result = Running
    /\ buffer = << >>
    /\ cur = 0
    /\ v = None
    /\ IdleEnvelope
    /\ IdleTable
    /\ IdleTide
    /\ IdleTexture

Resolve ==
    /\ pc = "resolve"
    /\ result' = resolve(name)
    /\ pc' = "done"
    /\ UNCHANGED << build, T, rdr, rdr_pos, buffer, cur, is_compressed,
                    compressed_size, num_readers, readers, num_shared, id,
                    name, generic_args, v >>
    /\ UNCHANGED << tideVars, texVars, typename, query >>

NextResolver == Resolve

SpecResolver == InitResolver /\ [][NextResolver]_vars

\* The resolver returned bare identity main and argument list as.
Resolved(main, as) ==
    /\ result.kind = "Ok"
    /\ result.value.main = main
    /\ result.value.args = as

\* C8: for a flat generic identity Name, BACKTICK, k[[Arg1, Asm],...,[Argk,
\* Asm]] with k >= 1 the resolver returns bare identity Name and the list
\* [Arg1,...,Argk] in order, each cut at its first comma; for an identity
\* with no BACKTICK it returns an empty list.
C8_FlatGenericArguments ==
    pc = "done" =>
        /\ \A base \in Bases, prefix \in ArgPrefixes, k \in 1..MaxArity,
              asm \in Asms, sep \in Seps :
              name = FlatName(base, prefix, k, asm, sep) =>
                  Resolved(base, [i \in 1..k |-> ArgName(prefix, i)])
        /\ (\A i \in 1..Len(name) : name[i] # Backtick) =>
              (result.kind = "Ok" /\ result.value.args = << >>)

\* The part of C8 the code keeps: arities of one digit.
C8_FlatGenericArgumentsBelowTen ==
    pc = "done" =>
        /\ \A base \in Bases, prefix \in ArgPrefixes, k \in 1..9,
              asm \in Asms, sep \in Seps :
              name = FlatName(base, prefix, k, asm, sep) =>
                  Resolved(base, [i \in 1..k |-> ArgName(prefix, i)])
        /\ (\A i \in 1..Len(name) : name[i] # Backtick) =>
              (result.kind = "Ok" /\ result.value.args = << >>)

\* C9: for the identity Foo, BACKTICK, 2[[Bar,Asm],[Baz, BACKTICK,
\* 1[[Qux,Asm]],Asm]] the resolver returns exactly the two arguments Bar and
\* Baz, BACKTICK, 1[[Qux,Asm]]: the nested argument is not split at its
\* inner commas or at its inner BACKTICK.
C9_NestedGenericArgument ==
    (pc = "done" /\ name = NestedName) =>
        /\ result.kind = "Ok"
        /\ result.value.args = << Str(<< "B", "a", "r" >>), NestedArg >>

\* The bracket depth after the first i chars of s.
Depth(s, i) ==
    Cardinality({j \in 1..i : s[j] = LBracket})
      - Cardinality({j \in 1..i : s[j] = RBracket})

\* The text after the first BACKTICK of nm (empty if there is none).
GenericSegment(nm) ==
    IF \A i \in 1..Len(nm) : nm[i] # Backtick THEN << >>
    ELSE LET k == CHOOSE i \in 1..Len(nm) :
                      nm[i] = Backtick /\ \A j \in 1..(i - 1) : nm[j] # Backtick
         IN SubSeq(nm, k + 1, Len(nm))

\* A closing bracket with no opening one, or an opening one never closed.
Unbalanced(nm) ==
    LET seg == GenericSegment(nm)
    IN \/ \E i \in 1..Len(seg) : Depth(seg, i) < 0
       \/ Depth(seg, Len(seg)) # 0

\* C10: for every identity whose generic segment has unbalanced brackets
\* the resolver fails with a MalformedGenericName error value; it neither
\* aborts nor returns an argument list.
C10_UnbalancedIsMalformedGenericName ==
    (pc = "done" /\ Unbalanced(name)) =>
        /\ result.kind = "Err"
        /\ result.error = [tag |-> "MalformedGenericName"]

(***************************************************************************)
(* u32 arithmetic of the tile scan (tide.rs 271-322), on the two 16-bit    *)
(* halves of the operands.                                                 *)
(***************************************************************************)
\* The number held by bits 0..15 and by bits 16..31 of a.
U32LowHalf(a)  == U32Low(a, 16)
U32HighHalf(a) == U32Low([i \in 1..32 |-> IF i <= 16 THEN a[i + 16] ELSE 0], 16)

U32OfHalves(hi, lo) ==
    [i \in 1..32 |-> IF i <= 16 THEN (lo \div 2^(i - 1)) % 2
                     ELSE (hi \div 2^(i - 17)) % 2]

\* a < b
U32Lt(a, b) ==
    \/ U32HighHalf(a) < U32HighHalf(b)
    \/ U32HighHalf(a) = U32HighHalf(b) /\ U32LowHalf(a) < U32LowHalf(b)

\* a + b: the sum modulo 2^32 and whether the mathematical sum exceeds it.
U32Add(a, b) ==
    LET lo == U32LowHalf(a) + U32LowHalf(b)
        hi == U32HighHalf(a) + U32HighHalf(b) + lo \div 65536
    IN [sum |-> U32OfHalves(hi % 65536, lo % 65536), overflow |-> hi >= 65536]

U32One == U32OfNat(1)

\* a += b on u32: the overflow check is compiled in debug builds only; the
\* release build keeps the sum modulo 2^32.
add_assign(bld, a, b) ==
    IF U32Add(a, b).overflow /\ bld = "debug"
    THEN Panic("attempt to add with overflow", 0)
    ELSE Ok(U32Add(a, b).sum, 0)

(***************************************************************************)
(* The sub-decoders of the tilemap blob (tide.rs 25-73).                   *)
(***************************************************************************)
\* The ? operator: the outcome r of a call ends the caller unless it is Ok,
\* and the caller goes on as K with it otherwise.
Try(r, K(_)) ==
    CHOOSE out \in {IF y.kind # "Ok" THEN y ELSE K(y) : y \in {r}} : TRUE

\* PropertyParse::parse is supplied by the caller; the repository's only
\* use of the parsed value (examples/xnbdump.rs) is the list itself.
parse(props) == props

\* read_tide_string (tide.rs 25-28)
read_tide_string(b, p) ==
    Try(read_u32(b, p), LAMBDA len : read_string_with_length(b, len.pos, len.value))

\* The match on the type byte of one property (tide.rs 37-43); the reader
\* is just past the type byte.  The f32 is kept as its 32-bit pattern.
read_property_value(b, p, type) ==
    CASE type = 0 ->
           Try(read_u8(b, p),
               LAMBDA val : Ok([tag |-> "Bool", value |-> val.value # 0], val.pos))
      [] type = 1 ->
           Try(read_i32(b, p),
               LAMBDA val : Ok([tag |-> "Int", value |-> val.value], val.pos))
      [] type = 2 ->
           Try(read_u32(b, p),
               LAMBDA val : Ok([tag |-> "Float", value |-> val.value], val.pos))
      [] type = 3 ->
           Try(read_tide_string(b, p),
               LAMBDA val : Ok([tag |-> "String", value |-> val.value], val.pos))
      [] OTHER -> Panic("unexpected property type", p)

RECURSIVE read_properties_loop(_, _, _, _, _)
\* for _ in 0..num_properties (tide.rs 34-45), from iteration i.
read_properties_loop(b, p, num_properties, i, props) ==
    IF ~NatLtU32(i, num_properties) THEN Ok(props, p)
    ELSE Try(read_tide_string(b, p), LAMBDA nm :
         Try(read_u8(b, nm.pos), LAMBDA type :
         Try(read_property_value(b, type.pos, type.value), LAMBDA value :
             read_properties_loop(b, value.pos, num_properties, i + 1,
                                  Append(props, << nm.value, value.value >>)))))

\* read_tide_properties (tide.rs 30-47)
read_tide_properties(b, p) ==
    Try(read_u32(b, p), LAMBDA num_properties :
        read_properties_loop(b, num_properties.pos, num_properties.value, 0, << >>))

\* read_static_tile (tide.rs 58-73)
read_static_tile(b, p, tilesheet, pos) ==
    Try(read_u32(b, p), LAMBDA idx :
    Try(read_u8(b, idx.pos), LAMBDA blend_mode :
    Try(read_tide_properties(b, blend_mode.pos), LAMBDA properties :
        Ok([idx |-> idx.value,
            tilesheet |-> tilesheet,
            pos |-> pos,
            blend_mode |-> blend_mode.value,
            properties |-> parse(properties.value)],
           properties.pos))))

\* Tile::Static(t) and Tile::Animated(t) (tide.rs 125-128)
Static(t)   == [tile |-> "Static", static |-> t]
Animated(t) == [tile |-> "Animated", animated |-> t]

(***************************************************************************)
(* read_tide (tide.rs 170-342) as the steps of one call.  The caller's     *)
(* reader is XNB::new's Cursor over buffer, at position cur; the blob is   *)
(* read into buf and decoded through a second Cursor at buf_pos.  The      *)
(* println! calls are left out.                                            *)
(***************************************************************************)
\* vec![0; n]
Zeros(n) == [i \in 1..n |-> 0]

\* A plausible slip: the destination cut down to the bytes read.
read_truncating(b, p, data) ==
    LET k == IF Len(data) < Len(b) - p THEN Len(data) ELSE Len(b) - p
    IN Ok(SubSeq(b, p + 1, p + k), p + k)

\* Read::read(&mut data) on a Cursor: as many bytes as the Cursor still
\* holds are copied to the front of data, the rest of data is left as it
\* was, and the call succeeds whatever the count.
read(b, p, data) ==
    LET k == IF Len(data) < Len(b) - p THEN Len(data) ELSE Len(b) - p
    IN Ok([i \in 1..Len(data) |-> IF i <= k THEN b[p + i] ELSE data[i]], p + k)

TideMagic == Str(<< "t", "B", "I", "N", "1", "0" >>)

\* let mut header = vec![0; 6]
TideMagicLen == 6

\* The registers of the caller, left alone by read_tide.
callerVars == << build, T, rdr, rdr_pos, buffer, is_compressed, compressed_size,
                 num_readers, readers, num_shared, id, name, generic_args, v,
                 format, width, height, mip_count, mip_data, typename, query >>

headVars == << map, num_tilesheets, tilesheets, num_layers, layers, layer >>
scanVars == << tiles, tileset, x_pos, y_pos >>
animVars == << interval, frame_count, frames, frame, sub_tags >>

\* The call returns (or unwinds) with outcome r, the Cursor at r.pos.
Return(r) == Finish(r) /\ buf_pos' = r.pos

\* tide.rs 177-181.  The model follows blobs below 2 GiB.
ReadBlob ==
    /\ pc = "blob"
    /\ \E size \in {read_u32(buffer, cur)} :
          IF size.kind # "Ok"
          THEN cur' = size.pos /\ Finish(size) /\ UNCHANGED << buf, buf_pos >>
          ELSE /\ U32IsSmall(size.value)
               /\ \E data \in {read(buffer, size.pos, Zeros(U32ToNat(size.value)))} :
                     /\ buf' = data.value
                     /\ cur' = data.pos
                     /\ buf_pos' = 0
                     /\ pc' = "tide_magic"
                     /\ UNCHANGED result
    /\ UNCHANGED << headVars, scanVars, animVars >>
    /\ UNCHANGED callerVars

\* tide.rs 183-187
ReadTideMagic ==
    /\ pc = "tide_magic"
    /\ \E header \in {read(buf, buf_pos, Zeros(TideMagicLen))} :
          IF header.value # TideMagic
          THEN Return(Err(ErrVoid, header.pos))
          ELSE buf_pos' = header.pos /\ pc' = "map_header" /\ UNCHANGED result
    /\ UNCHANGED << cur, buf, headVars, scanVars, animVars >>
    /\ UNCHANGED callerVars

\* map_id, map_description and the map's properties (tide.rs 189-197)
read_map_header(b, p) ==
    Try(read_tide_string(b, p), LAMBDA map_id :
    Try(read_tide_string(b, map_id.pos), LAMBDA map_description :
    Try(read_tide_properties(b, map_description.pos), LAMBDA properties :
        Ok([id |-> map_id.value,
            description |-> map_description.value,
            properties |-> parse(properties.value)],
           properties.pos))))

\* tide.rs 189-197
ReadMapHeader ==
    /\ pc = "map_header"
    /\ \E h \in {read_map_header(buf, buf_pos)} :
          IF h.kind # "Ok" THEN Return(h) /\ UNCHANGED map
          ELSE /\ map' = h.value
               /\ buf_pos' = h.pos
               /\ pc' = "num_tilesheets"
               /\ UNCHANGED result
    /\ UNCHANGED << cur, buf, num_tilesheets, tilesheets, num_layers, layers, layer,
                    scanVars, animVars >>
    /\ UNCHANGED callerVars

\* tide.rs 199-201
ReadNumTilesheets ==
    /\ pc = "num_tilesheets"
    /\ \E n \in {read_u32(buf, buf_pos)} :
          IF n.kind # "Ok" THEN Return(n) /\ UNCHANGED num_tilesheets
          ELSE /\ num_tilesheets' = n.value
               /\ buf_pos' = n.pos
               /\ pc' = "tilesheets"
               /\ UNCHANGED result
    /\ UNCHANGED << cur, buf, map, tilesheets, num_layers, layers, layer,
                    scanVars, animVars >>
    /\ UNCHANGED callerVars

\* The twelve fields of one tilesheet (tide.rs 203-230), in stream order;
\* f is the sequence of the outcomes of the fields read so far.
read_tilesheet_field(b, p, k) ==
    IF k <= 3 THEN read_tide_string(b, p)
    ELSE IF k <= 11 THEN read_u32(b, p)
    ELSE read_tide_properties(b, p)

RECURSIVE read_tilesheet_fields(_, _, _, _)
read_tilesheet_fields(b, p, k, f) ==
    IF k > 12 THEN Ok(f, p)
    ELSE Try(read_tilesheet_field(b, p, k), LAMBDA field :
             read_tilesheet_fields(b, field.pos, k + 1, Append(f, field.value)))

\* TileSheet { .. } (tide.rs 231-240) of the fields f
TileSheet(f) ==
    [id |-> f[1],
     description |-> f[2],
     image_source |-> f[3],
     sheet_size |-> << f[4], f[5] >>,
     tile_size |-> << f[6], f[7] >>,
     margin |-> << f[8], f[9] >>,
     spacing |-> << f[10], f[11] >>,
     properties |-> parse(f[12])]

\* One iteration of for _ in 0..num_tilesheets (tide.rs 202-241).
ReadTilesheet ==
    /\ pc = "tilesheets"
    /\ NatLtU32(Len(tilesheets), num_tilesheets)
    /\ \E f \in {read_tilesheet_fields(buf, buf_pos, 1, << >>)} :
          IF f.kind # "Ok" THEN Return(f) /\ UNCHANGED tilesheets
          ELSE /\ tilesheets' = Append(tilesheets, TileSheet(f.value))
               /\ buf_pos' = f.pos
               /\ UNCHANGED << pc, result >>
    /\ UNCHANGED << cur, buf, map, num_tilesheets, num_layers, layers, layer,
                    scanVars, animVars >>
    /\ UNCHANGED callerVars

\* tide.rs 243-245, once the loop over the tilesheets has ended.
ReadNumLayers ==
    /\ pc = "tilesheets"
    /\ ~NatLtU32(Len(tilesheets), num_tilesheets)
    /\ \E n \in {read_u32(buf, buf_pos)} :
          IF n.kind # "Ok" THEN Return(n) /\ UNCHANGED num_layers
          ELSE /\ num_layers' = n.value
               /\ buf_pos' = n.pos
               /\ pc' = "layers"
               /\ UNCHANGED result
    /\ UNCHANGED << cur, buf, map, num_tilesheets, tilesheets, layers, layer,
                    scanVars, animVars >>
    /\ UNCHANGED callerVars

\* The eight fields of a layer header (tide.rs 249-265), in stream order.
read_layer_field(b, p, k) ==
    IF k = 1 \/ k = 3 THEN read_tide_string(b, p)
    ELSE IF k = 2 THEN read_u8(b, p)
    ELSE IF k <= 7 THEN read_u32(b, p)
    ELSE read_tide_properties(b, p)

RECURSIVE read_layer_fields(_, _, _, _)
read_layer_fields(b, p, k, f) ==
    IF k > 8 THEN Ok(f, p)
    ELSE Try(read_layer_field(b, p, k), LAMBDA field :
             read_layer_fields(b, field.pos, k + 1, Append(f, field.value)))

\* The header fields f of a layer, as the locals of lines 249-265.
LayerHeader(f) ==
    [id |-> f[1],
     visible |-> f[2] # 0,
     description |-> f[3],
     size |-> << f[4], f[5] >>,
     tile_size |-> << f[6], f[7] >>,
     properties |-> parse(f[8])]

\* layer_w and layer_h of the layer being read
layer_w == layer.size[1]
layer_h == layer.size[2]

\* A plausible slip: the tilesheet context declared before the loop over the
\* layers, so that a layer starts with the context the previous one left.
ReadLayerHeaderKeepingTileset ==
    /\ pc = "layers"
    /\ NatLtU32(Len(layers), num_layers)
    /\ \E f \in {read_layer_fields(buf, buf_pos, 1, << >>)} :
          IF f.kind # "Ok"
          THEN Return(f) /\ UNCHANGED << layer, tiles, y_pos >>
          ELSE /\ layer' = LayerHeader(f.value)
               /\ tiles' = << >>
               /\ y_pos' = U32Zero
               /\ buf_pos' = f.pos
               /\ pc' = "rows"
               /\ UNCHANGED result
    /\ UNCHANGED << cur, buf, map, num_tilesheets, tilesheets, num_layers, layers,
                    tileset, x_pos, animVars >>
    /\ UNCHANGED callerVars

\* The head of one iteration of for _ in 0..num_layers (tide.rs 246-270).
ReadLayerHeader ==
    /\ pc = "layers"
    /\ NatLtU32(Len(layers), num_layers)
    /\ \E f \in {read_layer_fields(buf, buf_pos, 1, << >>)} :
          IF f.kind # "Ok"
          THEN Return(f) /\ UNCHANGED << layer, tiles, tileset, y_pos >>
          ELSE /\ layer' = LayerHeader(f.value)
               /\ tiles' = << >>
               /\ tileset' = << >>
               /\ y_pos' = U32Zero
               /\ buf_pos' = f.pos
               /\ pc' = "rows"
               /\ UNCHANGED result
    /\ UNCHANGED << cur, buf, map, num_tilesheets, tilesheets, num_layers, layers,
                    x_pos, animVars >>
    /\ UNCHANGED callerVars

\* Ok(Map { .. }) (tide.rs 335-341), once the loop over the layers has ended.
ReturnMap ==
    /\ pc = "layers"
    /\ ~NatLtU32(Len(layers), num_layers)
    /\ Return(Ok([id |-> map.id,
                  description |-> map.description,
                  tilesheets |-> tilesheets,
                  layers |-> layers,
                  properties |-> map.properties], buf_pos))
    /\ UNCHANGED << cur, buf, headVars, scanVars, animVars >>
    /\ UNCHANGED callerVars

\* while y < layer_h { let mut x = 0; (tide.rs 271-272)
RowStart ==
    /\ pc = "rows"
    /\ U32Lt(y_pos, layer_h)
    /\ x_pos' = U32Zero
    /\ pc' = "cols"
    /\ UNCHANGED << cur, buf, buf_pos, result, headVars, tiles, tileset, y_pos, animVars >>
    /\ UNCHANGED callerVars

\* layers.push(Layer { .. }) (tide.rs 325-333), once the rows have ended.
PushLayer ==
    /\ pc = "rows"
    /\ ~U32Lt(y_pos, layer_h)
    /\ layers' = Append(layers, [id |-> layer.id,
                                 description |-> layer.description,
                                 visible |-> layer.visible,
                                 size |-> layer.size,
                                 tile_size |-> layer.tile_size,
                                 tiles |-> tiles,
                                 properties |-> layer.properties])
    /\ pc' = "layers"
    /\ UNCHANGED << cur, buf, buf_pos, result, map, num_tilesheets, tilesheets,
                    num_layers, layer, scanVars, animVars >>
    /\ UNCHANGED callerVars

\* The row has ended: y += 1 (tide.rs 322).
RowEnd ==
    /\ pc = "cols"
    /\ ~U32Lt(x_pos, layer_w)
    /\ \E y1 \in {add_assign(build, y_pos, U32One)} :
          IF y1.kind # "Ok"
          THEN Finish(Panic(y1.message, buf_pos)) /\ UNCHANGED y_pos
          ELSE y_pos' = y1.value /\ pc' = "rows" /\ UNCHANGED result
    /\ UNCHANGED << cur, buf, buf_pos, headVars, tiles, tileset, x_pos, animVars >>
    /\ UNCHANGED callerVars

\* The tag byte the inner loop is about to read, as rdr.read_u8()? as char.
tag == read_u8(buf, buf_pos)

\* Whether the scan is at a tag byte c of the tile stream.
AtTag(c) ==
    /\ pc = "cols"
    /\ U32Lt(x_pos, layer_w)
    /\ tag.kind = "Ok"
    /\ tag.value = Ord(c)

\* rdr.read_u8()? fails at the tag byte (tide.rs 274) or at the sub-tag
\* byte (tide.rs 295).
TagIo ==
    /\ \/ pc = "cols" /\ U32Lt(x_pos, layer_w)
       \/ pc = "frames" /\ NatLtU32(frame, frame_count)
    /\ tag.kind # "Ok"
    /\ Return(tag)
    /\ UNCHANGED << cur, buf, headVars, scanVars, animVars >>
    /\ UNCHANGED callerVars

\* A plausible slip: the id after a 'T' tag is read from a copy of the reader,
\* so that the reader stays at the tag.
TagTNotConsumed ==
    /\ AtTag("T")
    /\ \E s \in {read_tide_string(buf, tag.pos)} :
          IF s.kind # "Ok" THEN Return(s) /\ UNCHANGED tileset
          ELSE /\ tileset' = << s.value >>
               /\ UNCHANGED << buf_pos, pc, result >>
    /\ UNCHANGED << cur, buf, headVars, tiles, x_pos, y_pos, animVars >>
    /\ UNCHANGED callerVars

\* 'T' (tide.rs 275-277)
TagT ==
    /\ AtTag("T")
    /\ \E s \in {read_tide_string(buf, tag.pos)} :
          IF s.kind # "Ok" THEN Return(s) /\ UNCHANGED tileset
          ELSE /\ tileset' = << s.value >>
               /\ buf_pos' = s.pos
               /\ UNCHANGED << pc, result >>
    /\ UNCHANGED << cur, buf, headVars, tiles, x_pos, y_pos, animVars >>
    /\ UNCHANGED callerVars

\* tileset.clone().unwrap()
unwrap(opt, p) ==
    IF opt = << >>
    THEN Panic("called Option::unwrap() on a None value", p)
    ELSE Ok(opt[1], p)

\* read_static_tile(&mut rdr, tileset.clone().unwrap(), (x, y)): the
\* tilesheet argument is unwrapped before read_static_tile is entered.
static_tile(b, p, ts, pos) ==
    Try(unwrap(ts, p), LAMBDA tilesheet : read_static_tile(b, p, tilesheet.value, pos))

\* 'S' (tide.rs 278-285)
TagS ==
    /\ AtTag("S")
    /\ \E t \in {static_tile(buf, tag.pos, tileset, << x_pos, y_pos >>)},
             x1 \in {add_assign(build, x_pos, U32One)} :
          IF t.kind # "Ok" THEN Return(t) /\ UNCHANGED << tiles, x_pos >>
          ELSE IF x1.kind # "Ok"
          THEN Return(Panic(x1.message, t.pos)) /\ tiles' = Append(tiles, Static(t.value))
               /\ UNCHANGED x_pos
          ELSE /\ tiles' = Append(tiles, Static(t.value))
               /\ x_pos' = x1.value
               /\ buf_pos' = t.pos
               /\ UNCHANGED << pc, result >>
    /\ UNCHANGED << cur, buf, headVars, tileset, y_pos, animVars >>
    /\ UNCHANGED callerVars

\* 'N' (tide.rs 286-288)
TagN ==
    /\ AtTag("N")
    /\ \E n \in {read_u32(buf, tag.pos)} :
          IF n.kind # "Ok" THEN Return(n) /\ UNCHANGED x_pos
          ELSE \E x1 \in {add_assign(build, x_pos, n.value)} :
                  IF x1.kind # "Ok"
                  THEN Return(Panic(x1.message, n.pos)) /\ UNCHANGED x_pos
                  ELSE /\ x_pos' = x1.value
                       /\ buf_pos' = n.pos
                       /\ UNCHANGED << pc, result >>
    /\ UNCHANGED << cur, buf, headVars, tiles, tileset, y_pos, animVars >>
    /\ UNCHANGED callerVars

\* interval and frame_count (tide.rs 290-291)
read_animated_head(b, p) ==
    Try(read_u32(b, p), LAMBDA i :
    Try(read_u32(b, i.pos), LAMBDA fc : Ok(<< i.value, fc.value >>, fc.pos)))

\* 'A' up to the loop over its frames (tide.rs 289-293)
TagA ==
    /\ AtTag("A")
    /\ \E h \in {read_animated_head(buf, tag.pos)} :
          IF h.kind # "Ok" THEN Return(h) /\ UNCHANGED animVars
          ELSE /\ interval' = h.value[1]
               /\ frame_count' = h.value[2]
               /\ frames' = << >>
               /\ frame' = 0
               /\ sub_tags' = 0
               /\ buf_pos' = h.pos
               /\ pc' = "frames"
               /\ UNCHANGED result
    /\ UNCHANGED << cur, buf, headVars, scanVars >>
    /\ UNCHANGED callerVars

\* Any other tag byte (tide.rs 319)
TagOther ==
    /\ pc = "cols"
    /\ U32Lt(x_pos, layer_w)
    /\ tag.kind = "Ok"
    /\ tag.value \notin {Ord("T"), Ord("S"), Ord("N"), Ord("A")}
    /\ Return(Panic("unexpected frame type", tag.pos))
    /\ UNCHANGED << cur, buf, headVars, scanVars, animVars >>
    /\ UNCHANGED callerVars

\* Whether the loop over the frames is at a sub-tag byte c.
AtSubTag(c) ==
    /\ pc = "frames"
    /\ NatLtU32(frame, frame_count)
    /\ tag.kind = "Ok"
    /\ tag.value = Ord(c)

\* A plausible slip: every sub-tag counted as a frame.
FrameAfterAnySubTag(c, fr) == fr + 1

\* frame += 1 sits in the 'S' arm only (tide.rs 305).
FrameAfterSubTag(c, fr) == IF c = "S" THEN fr + 1 ELSE fr

\* A plausible slip: the id read inside an 'A' tile is dropped, the context
\* of the layer is kept.
FrameTDropped ==
    /\ AtSubTag("T")
    /\ \E s \in {read_tide_string(buf, tag.pos)} :
          IF s.kind # "Ok" THEN Return(s) /\ UNCHANGED << frame, sub_tags >>
          ELSE /\ frame' = FrameAfterSubTag("T", frame)
               /\ sub_tags' = sub_tags + 1
               /\ buf_pos' = s.pos
               /\ UNCHANGED << pc, result >>
    /\ UNCHANGED << cur, buf, headVars, scanVars, interval, frame_count, frames >>
    /\ UNCHANGED callerVars

\* 'T' inside an 'A' tile (tide.rs 296-298)
FrameT ==
    /\ AtSubTag("T")
    /\ \E s \in {read_tide_string(buf, tag.pos)} :
          IF s.kind # "Ok" THEN Return(s) /\ UNCHANGED << tileset, frame, sub_tags >>
          ELSE /\ tileset' = << s.value >>
               /\ frame' = FrameAfterSubTag("T", frame)
               /\ sub_tags' = sub_tags + 1
               /\ buf_pos' = s.pos
               /\ UNCHANGED << pc, result >>
    /\ UNCHANGED << cur, buf, headVars, tiles, x_pos, y_pos, interval, frame_count, frames >>
    /\ UNCHANGED callerVars

\* 'S' inside an 'A' tile (tide.rs 299-306)
FrameS ==
    /\ AtSubTag("S")
    /\ \E t \in {static_tile(buf, tag.pos, tileset, << x_pos, y_pos >>)} :
          IF t.kind # "Ok" THEN Return(t) /\ UNCHANGED << frames, frame, sub_tags >>
          ELSE /\ frames' = Append(frames, t.value)
               /\ frame' = FrameAfterSubTag("S", frame)
               /\ sub_tags' = sub_tags + 1
               /\ buf_pos' = t.pos
               /\ UNCHANGED << pc, result >>
    /\ UNCHANGED << cur, buf, headVars, scanVars, interval, frame_count >>
    /\ UNCHANGED callerVars

\* Any other sub-tag byte (tide.rs 307)
FrameOther ==
    /\ pc = "frames"
    /\ NatLtU32(frame, frame_count)
    /\ tag.kind = "Ok"
    /\ tag.value \notin {Ord("T"), Ord("S")}
    /\ Return(Panic("unexpected animated frame type", tag.pos))
    /\ UNCHANGED << cur, buf, headVars, scanVars, animVars >>
    /\ UNCHANGED callerVars

\* The trailing properties and the AnimatedTile { .. } (tide.rs 310-316)
animated_tile(b, p, i, fs, pos) ==
    Try(read_tide_properties(b, p), LAMBDA properties :
        Ok([interval |-> i,
            frames |-> fs,
            properties |-> parse(properties.value),
            pos |-> pos],
           properties.pos))

\* The frames have ended: the trailing properties, the push of the
\* Animated tile and x += 1 (tide.rs 310-317).
PushAnimated ==
    /\ pc = "frames"
    /\ ~NatLtU32(frame, frame_count)
    /\ \E t \in {animated_tile(buf, buf_pos, interval, frames, << x_pos, y_pos >>)},
             x1 \in {add_assign(build, x_pos, U32One)} :
          IF t.kind # "Ok" THEN Return(t) /\ UNCHANGED << tiles, x_pos >>
          ELSE IF x1.kind # "Ok"
          THEN Return(Panic(x1.message, t.pos)) /\ tiles' = Append(tiles, Animated(t.value))
               /\ UNCHANGED x_pos
          ELSE /\ tiles' = Append(tiles, Animated(t.value))
               /\ x_pos' = x1.value
               /\ buf_pos' = t.pos
               /\ pc' = "cols"
               /\ UNCHANGED result
    /\ UNCHANGED << cur, buf, headVars, tileset, y_pos, animVars >>
    /\ UNCHANGED callerVars

(***************************************************************************)
(* The getters of Tile (tide.rs 130-152), called on a tile of the map a    *)
(* decode returned.                                                        *)
(***************************************************************************)
\* tick / interval on u32, for a tick below 2^31 given as a number; a zero
\* interval panics in every build.
div_tick(tick, i) ==
    IF i = U32Zero THEN Panic("attempt to divide by zero", 0)
    ELSE IF ~U32IsSmall(i) THEN Ok(0, 0)
    ELSE Ok(tick \div U32ToNat(i), 0)

\* q as usize % len, the remainder by zero panicking in every build
rem_len(q, len) ==
    IF len = 0
    THEN Panic("attempt to calculate the remainder with a divisor of zero", 0)
    ELSE Ok(q % len, 0)

\* v[i] on a Vec, i counted from 0
index(vec, i) ==
    IF i >= Len(vec) THEN Panic("index out of bounds", 0) ELSE Ok(vec[i + 1], 0)

\* Tile::get_index (tide.rs 131-138)
get_index(t, tick) ==
    IF t.tile = "Static" THEN Ok(t.static.idx, 0)
    ELSE Try(div_tick(tick, t.animated.interval), LAMBDA q :
         Try(rem_len(q.value, Len(t.animated.frames)), LAMBDA i :
         Try(index(t.animated.frames, i.value), LAMBDA f : Ok(f.value.idx, 0))))

\* Tile::get_tilesheet (tide.rs 140-145)
get_tilesheet(t) ==
    IF t.tile = "Static" THEN Ok(t.static.tilesheet, 0)
    ELSE Try(index(t.animated.frames, 0), LAMBDA f : Ok(f.value.tilesheet, 0))

\* Tile::get_pos (tide.rs 147-152)
get_pos(t) ==
    IF t.tile = "Static" THEN Ok(t.static.pos, 0)
    ELSE Try(index(t.animated.frames, 0), LAMBDA f : Ok(f.value.pos, 0))

\* The tick values the getters are called with.
Ticks == {0, 99, 250}

\* The decode has returned a map and no getter has been called yet.
MapReturned == pc = "done" /\ result.kind = "Ok" /\ query = << >>

\* Tile k of layer l of the returned map.
TileAt(l, k) == result.value.layers[l].tiles[k]

\* The variables of the decode, left alone by the getters.
decodeVars == << build, T, rdr, rdr_pos, buffer, cur, pc, is_compressed,
                 compressed_size, num_readers, readers, num_shared, id, name,
                 generic_args, result, v, typename >>

GetIndex ==
    /\ MapReturned
    /\ \E l \in 1..Len(result.value.layers) :
       \E k \in 1..Len(result.value.layers[l].tiles), tick \in Ticks :
          query' = [getter |-> "get_index", tile |-> TileAt(l, k), tick |-> tick,
                    outcome |-> get_index(TileAt(l, k), tick)]
    /\ UNCHANGED << decodeVars, tideVars, texVars >>

GetTilesheet ==
    /\ MapReturned
    /\ \E l \in 1..Len(result.value.layers) :
       \E k \in 1..Len(result.value.layers[l].tiles) :
          query' = [getter |-> "get_tilesheet", tile |-> TileAt(l, k), tick |-> 0,
                    outcome |-> get_tilesheet(TileAt(l, k))]
    /\ UNCHANGED << decodeVars, tideVars, texVars >>

GetPos ==
    /\ MapReturned
    /\ \E l \in 1..Len(result.value.layers) :
       \E k \in 1..Len(result.value.layers[l].tiles) :
          query' = [getter |-> "get_pos", tile |-> TileAt(l, k), tick |-> 0,
                    outcome |-> get_pos(TileAt(l, k))]
    /\ UNCHANGED << decodeVars, tideVars, texVars >>

(***************************************************************************)
(* SpecTide: read_tide applied to tilemap blobs built from tile-stream     *)
(* tags, and to truncations of such a blob.                                *)
(***************************************************************************)
\* The longest run of tags that follows the first 'T' tag of a tile stream.
MaxTags == 3

\* The four little-endian bytes of a number n in 0..2^31-1.
Le32(n) == << n % 256, (n \div 256) % 256, (n \div 65536) % 256, n \div 16777216 >>

EncTideString(s) == Le32(Len(s)) \o s

NoProperties == Le32(0)

SheetA == Str(<< "s", "h", "e", "e", "t", "A" >>)
SheetB == Str(<< "b" >>)

TokT(sheet) == << Ord("T") >> \o EncTideString(sheet)
TokS(idx)   == << Ord("S") >> \o Le32(idx) \o << 0 >> \o NoProperties
TokN(n)     == << Ord("N") >> \o Le32(n)
TokA(i, fc, subs) == << Ord("A") >> \o Le32(i) \o Le32(fc) \o subs \o NoProperties

\* 'N' with the run length 2^32 - 1
TokNMax == << Ord("N"), 255, 255, 255, 255 >>

\* 'S' with one Bool property named "p", and with a property of type 9
TokSProperty(type) ==
    << Ord("S") >> \o Le32(1) \o << 1 >> \o Le32(1) \o EncTideString(Str(<< "p" >>))
    \o << type, 1 >>

CoreTokens ==
    { TokS(1), TokN(1), TokT(SheetB),
      TokA(100, 2, TokS(1) \o TokT(SheetB) \o TokS(2)) }

EdgeTokens ==
    CoreTokens
    \cup { TokN(0), TokN(2), TokNMax,
           TokA(0, 0, << >>),
           TokA(100, 2, TokT(SheetB) \o TokS(2)),
           TokA(100, 1, << Ord("N") >>),
           << Ord("X") >>,
           TokSProperty(0), TokSProperty(9) }

\* The streams of up to MaxTags tags after the first 'T' tag.
CoreStreams == {TokT(SheetA) \o Concat(s) : s \in SeqsUpTo(CoreTokens, MaxTags)}

TileStreams ==
    {Concat(s) : s \in SeqsUpTo(EdgeTokens, 2)}
    \cup {TokT(SheetA) \o Concat(s) : s \in SeqsUpTo(EdgeTokens, 2)}
    \cup {TokT(SheetA) \o TokS(1) \o TokNMax \o TokS(2) \o TokN(2),
          TokT(SheetA) \o TokS(1) \o TokNMax \o TokS(2) \o TokS(3) \o TokS(4)}

\* << layer_w, layer_h >>
LayerSizes == {<< 3, 1 >>, << 1, 2 >>, << 0, 1 >>, << 2, 0 >>}

\* The sizes of the layers that hold a stream of CoreStreams.
CoreSizes == {<< 3, 1 >>, << 2, 2 >>, << 1, 2 >>}

EncLayer(size, stream) ==
    EncTideString(Str(<< "L" >>)) \o << 1 >> \o EncTideString(<< >>)
    \o Le32(size[1]) \o Le32(size[2]) \o Le32(16) \o Le32(16) \o NoProperties
    \o stream

EncTilesheet ==
    EncTideString(SheetA) \o EncTideString(<< >>) \o EncTideString(Str(<< "a", ".", "p" >>))
    \o Le32(4) \o Le32(4) \o Le32(16) \o Le32(16) \o Le32(0) \o Le32(0)
    \o Le32(0) \o Le32(0) \o NoProperties

\* The blob of a map of the given tilesheets and layers, with its length prefix.
EncMap(sheets, lays) ==
    LET body == TideMagic \o EncTideString(Str(<< "m" >>)) \o EncTideString(<< >>)
                \o NoProperties
                \o Le32(Len(sheets)) \o Concat(sheets)
                \o Le32(Len(lays)) \o Concat(lays)
    IN Le32(Len(body)) \o body

\* W=3, H=1 with the tags T "sheetA", S, N 1, S
ExampleStream == TokT(SheetA) \o TokS(1) \o TokN(1) \o TokS(2)
ExampleMap == EncMap(<< >>, << EncLayer(<< 3, 1 >>, ExampleStream) >>)

TideInputs ==
    {EncMap(<< >>, << EncLayer(size, s) >>) : size \in LayerSizes, s \in TileStreams}
    \cup {EncMap(<< >>, << EncLayer(size, s) >>) : size \in CoreSizes, s \in CoreStreams}
    \cup {EncMap(<< EncTilesheet >>,
                 << EncLayer(<< 1, 1 >>, TokT(SheetA) \o TokS(1)), EncLayer(<< 1, 1 >>, s) >>) :
             s \in {TokS(2), TokT(SheetB) \o TokS(2), TokN(1)}}
    \cup Prefixes(ExampleMap)
    \cup {Le32(Len(ExampleMap) - 4) \o s : s \in Prefixes(SubSeq(ExampleMap, 5, 40))}
    \cup {Le32(n) \o SubSeq(ExampleMap, 5, 4 + n) : n \in 0..(Len(ExampleMap) - 4)}

InitTide ==
    /\ IdleTile
    /\ IdleMember
    /\ build \in Builds
    /\ T = "Map"
    /\ buffer \in TideInputs
    /\ cur = 0
    /\ pc = "blob"
    /\ result = Running
    /\ rdr = << >>
    /\ rdr_pos = 0
    /\ is_compressed = FALSE
    /\ compressed_size = None
    /\ name = << >>
    /\ v = None
    /\ IdleTable
    /\ IdleTide
    /\ IdleTexture

NextTide ==
    \/ ReadBlob
    \/ ReadTideMagic
    \/ ReadMapHeader
    \/ ReadNumTilesheets
    \/ ReadTilesheet
    \/ ReadNumLayers
    \/ ReadLayerHeader
    \/ ReturnMap
    \/ RowStart
    \/ PushLayer
    \/ RowEnd
    \/ TagIo
    \/ TagT
    \/ TagS
    \/ TagN
    \/ TagA
    \/ TagOther
    \/ FrameT
    \/ FrameS
    \/ FrameOther
    \/ PushAnimated
    \/ GetIndex
    \/ GetTilesheet
    \/ GetPos

SpecTide == InitTide /\ [][NextTide]_vars

(***************************************************************************)
(* Claims about the tile stream (SpecTide).                                *)
(***************************************************************************)
\* The run length that follows an 'N' tag byte.
RunLength == read_u32(buf, tag.pos).value

\* The position an emitted tile carries.
TilePos(t) == IF t.tile = "Static" THEN t.static.pos ELSE t.animated.pos

\* One tile of the given kind was pushed, at the scan position, and the
\* scan moved one column on.
EmitsTileAtScan(kind) ==
    /\ Len(tiles') = Len(tiles) + 1
    /\ SubSeq(tiles', 1, Len(tiles)) = tiles
    /\ tiles'[Len(tiles')].tile = kind
    /\ TilePos(tiles'[Len(tiles')]) = << x_pos, y_pos >>
    /\ ~U32Add(x_pos, U32One).overflow
    /\ x_pos' = U32Add(x_pos, U32One).sum
    /\ y_pos' = y_pos

\* The decode of the example stream: two Static tiles of "sheetA" at (0,0)
\* and (2,0).
ExampleDecoded(r) ==
    /\ r.kind = "Ok"
    /\ Len(r.value.layers) = 1
    /\ LET ts == r.value.layers[1].tiles
       IN /\ Len(ts) = 2
          /\ \A i \in 1..2 : ts[i].tile = "Static" /\ ts[i].static.tilesheet = SheetA
          /\ ts[1].static.pos = << U32Zero, U32Zero >>
          /\ ts[2].static.pos = << U32OfNat(2), U32Zero >>

C11_Step ==
    /\ (AtTag("S") /\ pc' = "cols") => EmitsTileAtScan("Static")
    /\ (pc = "frames" /\ pc' = "cols") => EmitsTileAtScan("Animated")
    /\ (AtTag("N") /\ pc' = "cols") =>
          /\ tiles' = tiles
          /\ ~U32Add(x_pos, RunLength).overflow
          /\ x_pos' = U32Add(x_pos, RunLength).sum
          /\ y_pos' = y_pos
    /\ ((AtTag("T") /\ pc' = "cols") \/ pc' = "frames") =>
          UNCHANGED << tiles, x_pos, y_pos >>
    /\ (pc = "rows" /\ pc' = "cols") =>
          x_pos' = U32Zero /\ UNCHANGED << tiles, y_pos >>
    /\ (pc = "cols" /\ pc' = "rows") =>
          y_pos' = U32Add(y_pos, U32One).sum /\ UNCHANGED tiles
    /\ (pc = "layers" /\ pc' = "rows") => y_pos' = U32Zero /\ tiles' = << >>
    /\ (pc = "rows" /\ pc' = "layers") => layers'[Len(layers')].tiles = tiles
    /\ (pc # "done" /\ pc' = "done" /\ buffer = ExampleMap) => ExampleDecoded(result')

\* C11: the tiles of a layer are the tiles of the 'S' and 'A' tags in tag
\* order; each carries the scan position, which starts at column 0 in every
\* row, moves on by one with every 'S' and 'A' tag and by the run length
\* with every 'N' tag (the mathematical sum), and whose row is the index of
\* the row; 'N' and 'T' emit nothing.  W=3, H=1 with T "sheetA", S, N 1, S
\* yields two Static tiles of "sheetA" at (0,0) and (2,0).
C11_TilePositions == [][C11_Step]_vars

\* Whether the 'N' tag the scan is at carries a run length whose sum with
\* the column exceeds 2^32 - 1.
RunOverflows ==
    /\ AtTag("N")
    /\ read_u32(buf, tag.pos).kind = "Ok"
    /\ U32Add(x_pos, RunLength).overflow

\* The part of C11 the code keeps: the positions are as stated on every
\* step but that of an 'N' tag whose sum overflows.
C11_TilePositionsWithoutOverflow == [][RunOverflows \/ C11_Step]_vars

\* The example of C11 has been decoded.
C11_ExampleReached ==
    pc = "done" /\ buffer = ExampleMap /\ ExampleDecoded(result)

\* The scan is at a top-level tag byte outside T, S, N, A, or at a sub-tag
\* byte outside T, S inside an 'A' tile.
AtBadTag ==
    /\ tag.kind = "Ok"
    /\ \/ /\ pc = "cols"
          /\ U32Lt(x_pos, layer_w)
          /\ tag.value \notin {Ord("T"), Ord("S"), Ord("N"), Ord("A")}
       \/ /\ pc = "frames"
          /\ NatLtU32(frame, frame_count)
          /\ tag.value \notin {Ord("T"), Ord("S")}

\* C12: a bad tag byte, and a bad sub-tag byte inside an 'A' tile, ends the
\* decode with the error value MalformedTileTag(byte) returned to the
\* caller, not with an abort, and with no map.
C12_BadTagIsMalformedTileTag ==
    [][AtBadTag => /\ pc' = "done"
                   /\ result'.kind = "Err"
                   /\ result'.error = [tag |-> "MalformedTileTag",
                                       byte |-> tag.value]]_vars

(***************************************************************************)
(* SurfaceFormat::from (lib.rs 283-307) and Texture2d::new (lib.rs         *)
(* 319-337) as the steps of one call on XNB::new's Cursor over buffer.     *)
(***************************************************************************)
\* enum SurfaceFormat (lib.rs 259-280), in the order of the codes 0..19.
SurfaceFormat ==
    << "Color", "Bgr565", "Bgra5551", "Bgra4444", "Dxt1", "Dxt3", "Dxt5",
       "NormalizedByte2", "NormalizedByte4", "Rgba1010102", "Rg32", "Rgba64",
       "Alpha8", "Single", "Vector2", "Vector4", "HalfSingle", "HalfVector2",
       "HalfVector4", "HdrBlendable" >>

ErrUnrecognizedSurfaceFormat(f) == [tag |-> "UnrecognizedSurfaceFormat", code |-> f]

\* SurfaceFormat::from(val), the reader at position p.
SurfaceFormat_from(val, p) ==
    IF U32IsSmall(val) /\ U32ToNat(val) < Len(SurfaceFormat)
    THEN Ok(SurfaceFormat[U32ToNat(val) + 1], p)
    ELSE Err(ErrUnrecognizedSurfaceFormat(val), p)

\* format, w, h and mip_count (lib.rs 320-323)
read_texture_head(b, p) ==
    Try(read_u32(b, p), LAMBDA val :
    Try(SurfaceFormat_from(val.value, val.pos), LAMBDA fmt :
    Try(read_u32(b, fmt.pos), LAMBDA w :
    Try(read_u32(b, w.pos), LAMBDA h :
    Try(read_u32(b, h.pos), LAMBDA n :
        Ok(<< fmt.value, w.value, h.value, n.value >>, n.pos))))))

\* lib.rs 320-324
ReadTextureHead ==
    /\ pc = "texture"
    /\ \E head \in {read_texture_head(buffer, cur)} :
          /\ cur' = head.pos
          /\ IF head.kind # "Ok"
             THEN Finish(head) /\ UNCHANGED texVars
             ELSE /\ format' = head.value[1]
                  /\ width' = head.value[2]
                  /\ height' = head.value[3]
                  /\ mip_count' = head.value[4]
                  /\ mip_data' = << >>
                  /\ pc' = "mips"
                  /\ UNCHANGED result
    /\ UNCHANGED << build, T, rdr, rdr_pos, buffer, is_compressed, compressed_size,
                    num_readers, readers, num_shared, id, name, generic_args, v >>
    /\ UNCHANGED << tideVars, typename, query >>

\* One iteration of for _ in 0..mip_count (lib.rs 325-330).  The model
\* follows mip levels below 2 GiB.
ReadMip ==
    /\ pc = "mips"
    /\ NatLtU32(Len(mip_data), mip_count)
    /\ \E data_size \in {read_u32(buffer, cur)} :
          IF data_size.kind # "Ok"
          THEN cur' = data_size.pos /\ Finish(data_size) /\ UNCHANGED mip_data
          ELSE /\ U32IsSmall(data_size.value)
               /\ \E data \in {read(buffer, data_size.pos,
                                    Zeros(U32ToNat(data_size.value)))} :
                     /\ mip_data' = Append(mip_data, data.value)
                     /\ cur' = data.pos
                     /\ UNCHANGED << pc, result >>
    /\ UNCHANGED << build, T, rdr, rdr_pos, buffer, is_compressed, compressed_size,
                    num_readers, readers, num_shared, id, name, generic_args, v,
                    format, width, height, mip_count >>
    /\ UNCHANGED << tideVars, typename, query >>

\* Ok(Texture2d { .. }) (lib.rs 331-336), once the loop has ended.
ReturnTexture ==
    /\ pc = "mips"
    /\ ~NatLtU32(Len(mip_data), mip_count)
    /\ Finish(Ok([format |-> format,
                  width |-> width,
                  height |-> height,
                  mip_data |-> mip_data], cur))
    /\ UNCHANGED << build, T, rdr, rdr_pos, buffer, cur, is_compressed, compressed_size,
                    num_readers, readers, num_shared, id, name, generic_args, v >>
    /\ UNCHANGED << tideVars, texVars, typename, query >>

(***************************************************************************)
(* SpecTexture: Texture2d::new applied to encoded textures, to textures    *)
(* whose stream ends early, and to format codes around the last known one. *)
(***************************************************************************)
\* The largest number of mip levels of an encoded texture.
MaxMips == 2

\* The payloads of a mip level.
MipPool == {<< >>, << 7 >>, << 1, 2, 255 >>}

EncMip(m) == Le32(Len(m)) \o m

EncMips(ms) == Concat([i \in 1..Len(ms) |-> EncMip(ms[i])])

\* The four bytes of a format code, w = 2, h = 1, the mip count and the mips.
EncTexture(code, ms) ==
    code \o Le32(2) \o Le32(1) \o Le32(Len(ms)) \o EncMips(ms)

FormatCodes ==
    {Le32(n) : n \in {0, 1, 18, 19, 20, 21, 256}} \cup {<< 255, 255, 255, 255 >>}

SampleTexture == EncTexture(Le32(0), << << 1, 2, 255 >>, << 7 >> >>)

TextureInputs ==
    {EncTexture(code, ms) : code \in FormatCodes, ms \in SeqsUpTo(MipPool, MaxMips)}
    \cup Prefixes(SampleTexture)
    \cup {Le32(4) \o Le32(2) \o Le32(1) \o n \o EncMip(<< 7 >>) :
             n \in {Le32(2), << 255, 255, 255, 255 >>}}

InitTexture ==
    /\ IdleTile
    /\ IdleMember
    /\ build \in Builds
    /\ T = "Texture2d"
    /\ buffer \in TextureInputs
    /\ cur = 0
    /\ pc = "texture"
    /\ result = Running
    /\ rdr = << >>
    /\ rdr_pos = 0
    /\ is_compressed = FALSE
    /\ compressed_size = None
    /\ name = << >>
    /\ v = None
    /\ IdleTable
    /\ IdleTide
    /\ IdleTexture

NextTexture ==
    \/ ReadTextureHead
    \/ ReadMip
    \/ ReturnTexture

SpecTexture == InitTexture /\ [][NextTexture]_vars

\* The format code, the mip count and the byte size of the next mip level,
\* as the stream declares them.
DeclaredFormat   == read_u32(buffer, 0)
DeclaredMipCount == read_u32(buffer, 12)
DeclaredMipSize  == read_u32(buffer, cur)

C13_Step ==
    /\ (pc = "mips" /\ pc' = "mips") =>
          /\ Len(mip_data') = Len(mip_data) + 1
          /\ SubSeq(mip_data', 1, Len(mip_data)) = mip_data
          /\ Len(mip_data'[Len(mip_data')]) = U32ToNat(DeclaredMipSize.value)
    /\ (pc = "mips" /\ pc' = "done" /\ result'.kind = "Ok") =>
          /\ result'.value.mip_data = mip_data
          /\ U32OfNat(Len(mip_data)) = DeclaredMipCount.value
          /\ result'.value.format \in {SurfaceFormat[i] : i \in 1..20}
          /\ result'.value.format = SurfaceFormat[U32ToNat(DeclaredFormat.value) + 1]
          /\ (DeclaredFormat.value = U32Zero => result'.value.format = "Color")
    /\ (pc = "texture" /\ DeclaredFormat.kind = "Ok"
          /\ ~(U32IsSmall(DeclaredFormat.value) /\ U32ToNat(DeclaredFormat.value) < 20)) =>
          /\ pc' = "done"
          /\ result' = Err(ErrUnrecognizedSurfaceFormat(DeclaredFormat.value), 4)
          /\ cur' = 4
          /\ UNCHANGED texVars
    /\ (pc = "texture" /\ pc' = "done" /\ result'.kind = "Err"
          /\ DeclaredFormat.kind = "Ok"
          /\ U32IsSmall(DeclaredFormat.value) /\ U32ToNat(DeclaredFormat.value) < 20) =>
          result'.error = ErrIo

\* C13: a Texture2d returned by a successful decode has as many mip buffers
\* as the stream declares, each as long as the size declared for its level,
\* and a format that is the enumerator of its code in 0..19 (Color for 0);
\* a format code of 20 or more fails with UnrecognizedSurfaceFormat(code)
\* after the four bytes of the code and before anything else is read.
C13_TextureShape == [][C13_Step]_vars

\* A texture of two non-empty mip levels has been returned.
C13_Witness ==
    /\ pc = "done"
    /\ result.kind = "Ok"
    /\ Len(result.value.mip_data) = 2
    /\ Len(result.value.mip_data[1]) = 3
    /\ Len(result.value.mip_data[2]) = 1

(***************************************************************************)
(* SpecString: read_string (lib.rs 457-460) and read_string_with_length    *)
(* (lib.rs 462-470) applied to a declared length n and n bytes.            *)
(***************************************************************************)
\* The longest string decoded.
MaxStringLen == 3

StringBytes == {0, 65, 127, 128, 255}

InitString ==
    /\ IdleTile
    /\ IdleMember
    /\ build \in Builds
    /\ \E s \in SeqsUpTo(StringBytes, MaxStringLen) :
          /\ v = U32OfNat(Len(s))
          /\ \/ pc = "read_string" /\ buffer = Enc7(Len(s)) \o s
             \/ pc = "read_string_with_length" /\ buffer = s
    /\ cur = 0
    /\ result = Running
    /\ name = << >>
    /\ IdleEnvelope
    /\ IdleTable
    /\ IdleTide
    /\ IdleTexture

ReadString ==
    /\ pc = "read_string"
    /\ result' = read_string(build, buffer, cur)
    /\ cur' = result'.pos
    /\ pc' = "done"
    /\ UNCHANGED << build, T, rdr, rdr_pos, buffer, is_compressed, compressed_size,
                    num_readers, readers, num_shared, id, name, generic_args, v >>
    /\ UNCHANGED << tideVars, texVars, typename, query >>

\* read_string_with_length(rdr, len) with len = v
ReadStringWithLength ==
    /\ pc = "read_string_with_length"
    /\ result' = read_string_with_length(buffer, cur, v)
    /\ cur' = result'.pos
    /\ pc' = "done"
    /\ UNCHANGED << build, T, rdr, rdr_pos, buffer, is_compressed, compressed_size,
                    num_readers, readers, num_shared, id, name, generic_args, v >>
    /\ UNCHANGED << tideVars, texVars, typename, query >>

NextString == ReadString \/ ReadStringWithLength

SpecString == InitString /\ [][NextString]_vars

\* The n bytes that follow the declared length n = v.
DeclaredBytes == SubSeq(buffer, Len(buffer) - U32ToNat(v) + 1, Len(buffer))

\* C14: for every declared length n and every n bytes 0..255, bytes of 128
\* and more included, the call returns a string of n characters whose i-th
\* character has the code point of the i-th byte.
C14_EveryByteIsACharacter ==
    pc = "done" =>
        /\ result.kind = "Ok"
        /\ Len(result.value) = U32ToNat(v)
        /\ \A i \in 1..U32ToNat(v) : result.value[i] = DeclaredBytes[i]

\* The part of C14 the code keeps: bytes below 128.
C14_AsciiBytesAreCharacters ==
    (pc = "done" /\ \A i \in 1..Len(DeclaredBytes) : DeclaredBytes[i] < 128) =>
        /\ result.kind = "Ok"
        /\ result.value = DeclaredBytes

\* The next mip level declares more bytes than the reader still holds.
MipExceedsRemaining ==
    /\ pc = "mips"
    /\ NatLtU32(Len(mip_data), mip_count)
    /\ DeclaredMipSize.kind = "Ok"
    /\ NatLtU32(Len(buffer) - DeclaredMipSize.pos, DeclaredMipSize.value)

\* C15: when the byte source ends before a declared-length field is
\* complete, the decode fails with an Io error and returns no value; here for
\* a Texture2d mip level whose declared byte size exceeds the bytes remaining.
C15_ShortMipIsIo ==
    [][MipExceedsRemaining =>
          pc' = "done" /\ result'.kind = "Err" /\ result'.error = ErrIo]_vars

\* The same for the tilemap blob whose length prefix exceeds the bytes
\* remaining (SpecTide).
C15_ShortBlobIsIo ==
    [][(/\ pc = "blob"
        /\ read_u32(buffer, cur).kind = "Ok"
        /\ NatLtU32(Len(buffer) - 4, read_u32(buffer, cur).value)) =>
          pc' = "done" /\ result'.kind = "Err" /\ result'.error = ErrIo]_vars

\* The same for the 6-byte tilemap magic (SpecTide).
C15_ShortTideMagicIsIo ==
    [][(pc = "tide_magic" /\ Len(buf) < TideMagicLen) =>
          pc' = "done" /\ result'.kind = "Err" /\ result'.error = ErrIo]_vars

\* The loop over the frames of the current 'A' tile has ended: the trailing
\* property list is read next.
FramesEnded == pc = "frames" /\ ~NatLtU32(frame, frame_count)

\* C16 as stated: the decoder reads exactly F sub-tags in total before the
\* trailing property list, the 'T' sub-tags counted among them.
C16_AllSubTagsCount == FramesEnded => U32OfNat(sub_tags) = frame_count

C16_Step ==
    /\ (pc = "cols" /\ pc' = "frames") =>
          frame' = 0 /\ frames' = << >> /\ sub_tags' = 0
    /\ (AtSubTag("T") /\ pc' = "frames") =>
          /\ UNCHANGED << frame, frames >>
          /\ sub_tags' = sub_tags + 1
    /\ (AtSubTag("S") /\ pc' = "frames") =>
          /\ frame' = frame + 1
          /\ Len(frames') = Len(frames) + 1
          /\ sub_tags' = sub_tags + 1
    /\ pc' = "frames" =>
          /\ frame' = Len(frames')
          /\ frame' = 0 \/ NatLtU32(frame' - 1, frame_count')
    /\ (pc = "frames" /\ pc' = "cols") =>
          /\ U32OfNat(Len(frames)) = frame_count
          /\ tiles'[Len(tiles')].animated.frames = frames
          /\ buf_pos' = read_tide_properties(buf, buf_pos).pos

\* C16, amended: the decoder reads sub-tags, each 'T' or 'S', until exactly
\* F 'S' sub-tags have been decoded into frames, and reads the trailing
\* property list only then; a 'T' sub-tag does not count toward F.
C16_FramesCount == [][C16_Step]_vars

\* The frames of an 'A' tile of frame count 2 have ended after three
\* sub-tags, one of them a 'T'.
C16_Witness ==
    /\ FramesEnded
    /\ frame_count = U32OfNat(2)
    /\ Len(frames) = 2
    /\ sub_tags = 3
    /\ tileset = << SheetB >>

\* The scan is at a 'T' tag, at top level or inside an 'A' tile.
AtTilesheetTag == AtTag("T") \/ AtSubTag("T")

\* The decode is inside the tile stream of a layer.
InTileStream(p) == p \in {"rows", "cols", "frames"}

C17_Step ==
    /\ (AtTilesheetTag /\ pc' # "done") =>
          /\ tileset' = << read_tide_string(buf, tag.pos).value >>
          /\ UNCHANGED << x_pos, y_pos, tiles, frames, layers, pc >>
    /\ (InTileStream(pc) /\ InTileStream(pc') /\ ~AtTilesheetTag) =>
          tileset' = tileset
    /\ (AtTag("S") /\ pc' = "cols") =>
          tiles'[Len(tiles')].static.tilesheet = tileset[1]
    /\ (AtSubTag("S") /\ pc' = "frames") =>
          frames'[Len(frames')].tilesheet = tileset[1]

\* C17: a 'T' tag, at top level or inside an 'A' tile, changes only the
\* current-tilesheet context: the scan position and the emitted tiles stay
\* as they are, and every Static tile and frame decoded after it and before
\* the next 'T' tag of the layer carries the id it read, the tiles that
\* follow an 'A' tile in which the 'T' occurred included.
C17_TilesheetContext == [][C17_Step]_vars

\* A Static tile that follows an 'A' tile carries the id read by the 'T'
\* sub-tag inside that tile.
C17_Witness ==
    \E k \in 1..(Len(tiles) - 1) :
        /\ tiles[k].tile = "Animated"
        /\ Len(tiles[k].animated.frames) = 2
        /\ tiles[k].animated.frames[1].tilesheet = SheetA
        /\ tiles[k].animated.frames[2].tilesheet = SheetB
        /\ tiles[k + 1].tile = "Static"
        /\ tiles[k + 1].static.tilesheet = SheetB

(***************************************************************************)
(* read_dictionary_member (lib.rs 225-236) and reader_from_type (213-223): *)
(* the decoding of one element of a Vec or of a Dictionary, whose element  *)
(* type name is the generic argument of the container's reader.            *)
(***************************************************************************)
System_Int32 ==
    Str(<< "S", "y", "s", "t", "e", "m", ".", "I", "n", "t", "3", "2" >>)

System_Char ==
    Str(<< "S", "y", "s", "t", "e", "m", ".", "C", "h", "a", "r" >>)

Xna_Vector3 ==
    Str(<< "M", "i", "c", "r", "o", "s", "o", "f", "t", ".", "X", "n", "a",
         ".", "F", "r", "a", "m", "e", "w", "o", "r", "k", ".", "V", "e",
         "c", "t", "o", "r", "3" >>)

Xna_Rectangle ==
    Str(<< "M", "i", "c", "r", "o", "s", "o", "f", "t", ".", "X", "n", "a",
         ".", "F", "r", "a", "m", "e", "w", "o", "r", "k", ".", "R", "e",
         "c", "t", "a", "n", "g", "l", "e" >>)

\* reader_from_type without its "System.Char" arm.
reader_from_type_without_char(tn) ==
    CASE tn = System_Int32  -> << READER_i32 >>
      [] tn = Xna_Vector3   -> << READER_Vector3 >>
      [] tn = Xna_Rectangle -> << READER_Rectangle >>
      [] OTHER              -> << >>

\* The match of reader_from_type: Some(reader) is << reader >>, None is << >>.
reader_from_type(tn) ==
    CASE tn = System_Int32  -> << READER_i32 >>
      [] tn = System_Char   -> << READER_char >>
      [] tn = Xna_Vector3   -> << READER_Vector3 >>
      [] tn = Xna_Rectangle -> << READER_Rectangle >>
      [] OTHER              -> << >>

\* read_dictionary_member up to the call it delegates to: read_with_reader
\* with the static reader name, or read_object.
ReadDictionaryMember ==
    /\ pc = "read_dictionary_member"
    /\ \E reader \in {reader_from_type(typename)} :
          IF reader # << >>
          THEN name' = reader[1] /\ pc' = "read_with_reader"
          ELSE pc' = "read_object" /\ UNCHANGED name
    /\ UNCHANGED << cur, result, num_readers, readers, num_shared, id,
                    generic_args, typename, query >>
    /\ UNCHANGED envVars
    /\ UNCHANGED << tideVars, texVars >>

(***************************************************************************)
(* SpecMember: one call read_dictionary_member::<T>(typename, rdr,         *)
(* readers), the reader holding an optional index byte and a value.        *)
(***************************************************************************)
\* The element types requested.
MemberTypes == Types \cup {"Rectangle", "Vector3"}

System_String ==
    Str(<< "S", "y", "s", "t", "e", "m", ".", "S", "t", "r", "i", "n", "g" >>)

\* An assembly-qualified spelling of a primitive's name.
System_Int32_Qualified ==
    Str(<< "S", "y", "s", "t", "e", "m", ".", "I", "n", "t", "3", "2", ",",
         " ", "m", "s", "c", "o", "r", "l", "i", "b" >>)

MemberTypeNames ==
    { System_Int32, System_Char, Xna_Vector3, Xna_Rectangle, System_String,
      System_Int32_Qualified }

TypeReader(nm) == [name |-> nm, _version |-> U32Zero]

\* Reference tables of up to MaxReaders entries.
MemberTables ==
    { << >>,
      << TypeReader(READER_String) >>,
      << TypeReader(READER_i32), TypeReader(READER_String) >>,
      << TypeReader(READER_char), TypeReader(READER_Rectangle) >> }

\* What may stand in front of the value: nothing, or one index byte.
MemberIndexBytes == { << >>, << 0 >>, << 1 >>, << 2 >>, << 3 >>, << 128 >> }

\* Encoded values: none, a char, an i32, a one-character string, a Vector3
\* and a Rectangle.
MemberValues ==
    { << >>,
      << 65 >>,
      Le32(258),
      << 1, 65 >>,
      Le32(1) \o Le32(2) \o Le32(3),
      Le32(0) \o Le32(16) \o Le32(32) \o Le32(48) }

InitMember ==
    /\ IdleTile
    /\ build \in Builds
    /\ T \in MemberTypes
    /\ typename \in MemberTypeNames
    /\ readers \in MemberTables
    /\ \E i \in MemberIndexBytes, val \in MemberValues : buffer = i \o val
    /\ cur = 0
    /\ pc = "read_dictionary_member"
    /\ result = Running
    /\ name = << >>
    /\ rdr = << >>
    /\ rdr_pos = 0
    /\ is_compressed = FALSE
    /\ compressed_size = None
    /\ num_readers = None
    /\ num_shared = None
    /\ id = None
    /\ generic_args = << >>
    /\ v = None
    /\ IdleTide
    /\ IdleTexture

NextMember ==
    \/ ReadDictionaryMember
    \/ ReadObject
    \/ ReadWithReader
    \/ TryParse

SpecMember == InitMember /\ [][NextMember]_vars

\* The element type names the claim calls well-known primitives.
WellKnownPrimitives == { System_Int32, System_Char, Xna_Vector3, Xna_Rectangle }

\* The reader each well-known primitive is decoded with.
PrimitiveReader ==
    CASE typename = System_Int32  -> READER_i32
      [] typename = System_Char   -> READER_char
      [] typename = Xna_Vector3   -> READER_Vector3
      [] typename = Xna_Rectangle -> READER_Rectangle

\* The value decoded in place at position p by the reader named nm, whatever
\* the reference table holds.
DecodedInline(nm, p) ==
    IF nm = READER(T)
    THEN try_parse(T, build, buffer, p, << >>, << >>)
    ELSE Err(ErrReaderMismatch(nm, READER(T)), p)

\* The reference index in front of the value.
MemberIndex == read_7bit_encoded_int(build, buffer, 0)

\* C18: read_dictionary_member with an element type name among System.Int32,
\* System.Char, Microsoft.Xna.Framework.Vector3 and
\* Microsoft.Xna.Framework.Rectangle reads no reference index (the index
\* register stays unset) and returns the value decoded in place at the
\* reader's position by the primitive's own reader, whatever the reference
\* table holds; with any other name it first reads a reference index, as
\* read_object does, and decodes with the reader the table names at that
\* index.
C18_PrimitiveInlineElseReference ==
    pc \in {"read_object", "read_with_reader", "try_parse", "done"} =>
       IF typename \in WellKnownPrimitives
       THEN /\ id = None
            /\ pc # "read_object"
            /\ name = PrimitiveReader
            /\ pc = "read_with_reader" => cur = 0
            /\ pc = "done" => result = DecodedInline(PrimitiveReader, 0)
       ELSE /\ pc = "read_object" => id = None /\ cur = 0
            /\ pc # "read_object" =>
                  /\ cur >= MemberIndex.pos
                  /\ IF MemberIndex.kind # "Ok"
                     THEN id = None /\ result = MemberIndex
                     ELSE /\ id = MemberIndex.value
                          /\ IF id = U32Zero \/ NatLtU32(Len(readers), id)
                             THEN result.kind = "Panic"
                             ELSE /\ name = readers[U32ToNat(id)].name
                                  /\ pc = "done" =>
                                        result = DecodedInline(bare_identity(name),
                                                               MemberIndex.pos)

\* A Rectangle element decoded in place next to a non-empty reference table.
C18_Witness ==
    /\ pc = "done"
    /\ typename = Xna_Rectangle
    /\ T = "Rectangle"
    /\ readers # << >>
    /\ id = None
    /\ result.kind = "Ok"
    /\ cur = 16
    /\ result.value = << U32OfNat(0), U32OfNat(16), U32OfNat(32), U32OfNat(48) >>

(***************************************************************************)
(* The order of the envelope checks of XNB::from_buffer.                   *)
(***************************************************************************)
\* The place of a step in the envelope: the five header reads, the hand-over
\* to XNB::new (directly or through decompress), the reads of XNB::new and
\* read_object, the return.
Stage(p) ==
    CASE p = "magic"           -> 0
      [] p = "target"          -> 1
      [] p = "version"         -> 2
      [] p = "flag"            -> 3
      [] p = "compressed_size" -> 4
      [] p \in {"decompress", "from_uncompressed_buffer"} -> 5
      [] p = "done"            -> 7
      [] OTHER                 -> 6

\* Bytes consumed when each header read starts.
StageOffset == << 0, 3, 4, 5, 6 >>

KnownPlatforms == {Ord("w"), Ord("m"), Ord("x")}

\* Magic, platform and version of the source pass their checks and the
\* flags and compressed-size bytes are there.
HeaderChecksPass ==
    /\ Len(rdr) >= 10
    /\ SubSeq(rdr, 1, 3) = Str(<< "X", "N", "B" >>)
    /\ rdr[4] \in KnownPlatforms
    /\ rdr[5] = 5

C19_Step ==
    /\ Stage(pc) <= 4 =>
          /\ rdr_pos = StageOffset[Stage(pc) + 1]
          /\ pc' = "done" \/ Stage(pc') = Stage(pc) + 1
          /\ num_readers' = None /\ readers' = << >> /\ buffer' = << >>
    /\ (pc = "target" /\ Len(rdr) >= 4 /\ rdr[4] \notin KnownPlatforms) =>
          pc' = "done" /\ result' = Err(ErrVoid, 4) /\ rdr_pos' = 4
    /\ (pc = "version" /\ Len(rdr) >= 5 /\ rdr[5] # 5) =>
          pc' = "done" /\ result' = Err(ErrVoid, 5) /\ rdr_pos' = 5
    /\ Stage(pc') = 6 => HeaderChecksPass /\ rdr_pos' >= 10

\* C19: the envelope reads magic, platform, version, flags and compressed
\* size in that order, each once and each where the previous one stopped; a
\* platform byte outside 'w', 'm', 'x' returns the header error with 4 bytes
\* consumed (the version byte unread), a version byte other than 5 returns it
\* with 5 bytes consumed (the flags byte unread), and the reference table is
\* read only from a source whose magic, platform and version passed.
C19_EnvelopeOrder == [][C19_Step]_vars

\* A decode stopped at an unknown platform byte that is followed by the
\* supported version.
C19_Witness ==
    /\ pc = "done"
    /\ Len(rdr) > 5
    /\ SubSeq(rdr, 1, 3) = Str(<< "X", "N", "B" >>)
    /\ rdr[4] = Ord("a")
    /\ rdr[5] = 5
    /\ result = Err(ErrVoid, 4)
    /\ rdr_pos = 4
    /\ num_readers = None

(***************************************************************************)
(* The 'N' tag of the tile stream (tide.rs 286-288) and the end of a row.  *)
(***************************************************************************)
\* The scan is at an 'N' tag whose run length can be read.
AtRun == AtTag("N") /\ read_u32(buf, tag.pos).kind = "Ok"

\* x + n as a number: the 32-bit sum and the carry out of bit 31.
RunSum == U32Add(x_pos, RunLength)

\* The mathematical sum x + n reaches the layer width.
RunReachesWidth == RunSum.overflow \/ ~U32Lt(RunSum.sum, layer_w)

C20_Step ==
    /\ AtRun =>
          /\ pc' = "cols"
          /\ ~RunSum.overflow
          /\ x_pos' = RunSum.sum
          /\ UNCHANGED << y_pos, tiles >>
    /\ (AtRun /\ RunReachesWidth) => ~U32Lt(x_pos', layer_w)
    /\ (pc = "cols" /\ ~U32Lt(x_pos, layer_w)) =>
          /\ pc' = "rows"
          /\ y_pos' = U32Add(y_pos, U32One).sum
          /\ UNCHANGED << tiles, buf_pos >>
    /\ (pc = "rows" /\ pc' = "cols") => x_pos' = U32Zero

\* C20: an 'N' tag with run length n read at column x moves the scan column
\* to the mathematical sum x + n, never to the sum reduced modulo 2^32; when
\* x + n is at least the layer width the row ends there (no further tag is
\* read for it, whatever the excess) and the next row starts at column 0.
C20_RunIsMathematicalSum == [][C20_Step]_vars

C20_StepWithoutOverflow == (AtRun /\ RunSum.overflow) \/ C20_Step

\* The same for every run whose sum x + n fits 32 bits.
C20_RunWithoutOverflow == [][C20_StepWithoutOverflow]_vars

\* A run that reaches past the width was read, the row ended and the next
\* row started at column 0.
C20_RunPastWidthReached ==
    /\ pc = "cols"
    /\ x_pos = U32Zero
    /\ y_pos = U32One
    /\ tiles = << >>
    /\ buf_pos > 0
    /\ buf[buf_pos - 4] = Ord("N")

(***************************************************************************)
(* Claims about the layers of a decoded map (SpecTide).                    *)
(***************************************************************************)
\* The layers of the map a successful decode returned.
ReturnedLayers == IF pc = "done" /\ result.kind = "Ok" THEN result.value.layers ELSE << >>

\* Position p comes before position q in row-major order.
RowMajorBefore(p, q) == U32Lt(p[2], q[2]) \/ (p[2] = q[2] /\ U32Lt(p[1], q[1]))

\* Every tile of the layer lies inside the layer.
TilesInBounds(l) ==
    \A k \in 1..Len(l.tiles) :
       /\ U32Lt(TilePos(l.tiles[k])[1], l.size[1])
       /\ U32Lt(TilePos(l.tiles[k])[2], l.size[2])

\* The tiles of the layer are in strictly increasing row-major order.
TilesInScanOrder(l) ==
    \A k \in 1..(Len(l.tiles) - 1) :
       RowMajorBefore(TilePos(l.tiles[k]), TilePos(l.tiles[k + 1]))

\* Every frame of an Animated tile of the layer is at the tile's position.
FramesAtTile(l) ==
    \A k \in 1..Len(l.tiles) :
       l.tiles[k].tile = "Animated" =>
          \A f \in 1..Len(l.tiles[k].animated.frames) :
             l.tiles[k].animated.frames[f].pos = l.tiles[k].animated.pos

\* C21: in every layer of a map returned by a successful decode every tile
\* lies inside the layer (x < width, y < height), the tiles are in strictly
\* increasing row-major order of position, and every frame of an Animated
\* tile has the position of the tile.
C21_TilesInsideAndOrdered ==
    \A i \in 1..Len(ReturnedLayers) :
       /\ TilesInBounds(ReturnedLayers[i])
       /\ TilesInScanOrder(ReturnedLayers[i])
       /\ FramesAtTile(ReturnedLayers[i])

\* The same without the order of the tiles.
C21_TilesInsideWithFrames ==
    \A i \in 1..Len(ReturnedLayers) :
       TilesInBounds(ReturnedLayers[i]) /\ FramesAtTile(ReturnedLayers[i])

\* The order of the tiles in builds that check overflow.
C21_TilesOrderedInDebug ==
    build = "debug" =>
       \A i \in 1..Len(ReturnedLayers) : TilesInScanOrder(ReturnedLayers[i])

\* A layer of two rows was returned, an Animated tile of two frames in the
\* first row and a Static tile in the second.
C21_TwoRowsReached ==
    /\ Len(ReturnedLayers) = 1
    /\ Len(ReturnedLayers[1].tiles) = 2
    /\ ReturnedLayers[1].tiles[1].tile = "Animated"
    /\ Len(ReturnedLayers[1].tiles[1].animated.frames) = 2
    /\ TilePos(ReturnedLayers[1].tiles[2]) = << U32Zero, U32One >>

(***************************************************************************)
(* The tilesheet context of a layer (tide.rs 268, 276, 281, 297, 302).     *)
(***************************************************************************)
\* The scan of a layer starts.
LayerStarts == pc = "layers" /\ pc' = "rows"

\* The step reads a 'T' tag, of the tile stream or inside an 'A' tile, and
\* the id that follows it.
ReadsTilesheetId ==
    /\ AtTag("T") \/ AtSubTag("T")
    /\ read_tide_string(buf, tag.pos).kind = "Ok"

\* The step reads an 'S' tag, of the tile stream or inside an 'A' tile.
AtStaticTag == AtTag("S") \/ AtSubTag("S")

C22_Step ==
    /\ LayerStarts => tileset' = << >> /\ tiles' = << >>
    /\ (tileset' # tileset /\ ~LayerStarts) =>
          /\ ReadsTilesheetId
          /\ tileset' = << read_tide_string(buf, tag.pos).value >>
    /\ (pc \in {"rows", "cols", "frames"} /\ tileset = << >>) =>
          \A k \in 1..Len(tiles) :
             tiles[k].tile = "Animated" /\ tiles[k].animated.frames = << >>
    /\ (AtStaticTag /\ tileset = << >>) =>
          /\ pc' = "done"
          /\ result'.kind = "Panic"
          /\ UNCHANGED << tiles, frames, layers >>
    /\ (AtTag("S") /\ tiles' # tiles) =>
          /\ tileset # << >>
          /\ tiles'[Len(tiles')].static.tilesheet = tileset[1]
    /\ (AtSubTag("S") /\ frames' # frames) =>
          /\ tileset # << >>
          /\ frames'[Len(frames')].tilesheet = tileset[1]

\* C22: the tilesheet context is unset when the scan of a layer starts,
\* whatever the previous layer left; it is set only by a 'T' tag of the
\* layer being scanned, to the id read there; every Static tile and every
\* frame carries the context of the moment it is read; an 'S' tag met while
\* the context is unset produces no tile and no frame (the decode stops
\* there).
C22_TilesheetContextPerLayer == [][C22_Step]_vars

\* A second layer that starts with an 'S' tag, after a first layer whose
\* tile carries "sheetA": the decode stopped with the first layer alone.
C22_Witness ==
    /\ pc = "done"
    /\ result.kind = "Panic"
    /\ Len(layers) = 1
    /\ Len(layers[1].tiles) = 1
    /\ layers[1].tiles[1].static.tilesheet = SheetA
    /\ tileset = << >>
    /\ tiles = << >>

(***************************************************************************)
(* Claims about the getters of Tile (SpecTide).                            *)
(***************************************************************************)
\* A getter has been called on a tile of the returned map.
Queried == query # << >>

\* The frame the claim names for an Animated tile at a tick.
FrameAtTick(a, tick) ==
    a.frames[((tick \div U32ToNat(a.interval)) % Len(a.frames)) + 1]

\* C23: on every tile of a map returned by a successful decode, and for
\* every tick, get_index, get_tilesheet and get_pos return a value (they do
\* not panic); every Animated tile of such a map has a nonzero interval and
\* at least one frame, and its get_index is the idx of frame number
\* (tick / interval) mod frame count.
C23_GettersDefined ==
    Queried =>
       /\ query.outcome.kind = "Ok"
       /\ query.tile.tile = "Animated" =>
             /\ query.tile.animated.interval # U32Zero
             /\ query.tile.animated.frames # << >>
             /\ query.getter = "get_index" =>
                   query.outcome.value = FrameAtTick(query.tile.animated, query.tick).idx

\* The same for the tiles that are Static or have a nonzero interval and a
\* frame.
C23_GettersDefinedOnTilesWithFrames ==
    (/\ Queried
     /\ query.tile.tile = "Animated" =>
           /\ query.tile.animated.interval # U32Zero
           /\ query.tile.animated.frames # << >>) =>
       /\ query.outcome.kind = "Ok"
       /\ (query.tile.tile = "Animated" /\ query.getter = "get_index") =>
             query.outcome.value = FrameAtTick(query.tile.animated, query.tick).idx

\* get_index at tick 250 of an Animated tile of interval 100 and two frames
\* returned the idx of the first frame (250 / 100 = 2, 2 mod 2 = 0).
C23_SecondCycleReached ==
    /\ Queried
    /\ query.getter = "get_index"
    /\ query.tick = 250
    /\ query.tile.tile = "Animated"
    /\ query.tile.animated.interval = U32OfNat(100)
    /\ Len(query.tile.animated.frames) = 2
    /\ query.outcome = Ok(query.tile.animated.frames[1].idx, 0)
    /\ query.tile.animated.frames[1].idx # query.tile.animated.frames[2].idx

(***************************************************************************)
(* Termination of the tile-stream scan.  read_tide is sequential code: a   *)
(* step that can be taken is taken, which is weak fairness of NextTide.    *)
(***************************************************************************)
\* The tags of the blobs whose scan is followed to its end.
FairTokens ==
    { TokS(1), TokN(0), TokNMax,
      TokA(100, 2, TokS(1) \o TokT(SheetB) \o TokS(2)) }

\* The longest run of tags that follows the first 'T' tag in such a blob.
MaxFairTags == 2

FairSizes == {<< 2, 1 >>, << 1, 2 >>, << 0, 1 >>}

\* Streams that end in a tag or sub-tag the scan does not know, that hold
\* an 'A' tile without frames, and that end a row by a run.
FairEdgeStreams ==
    { TokT(SheetA) \o << Ord("X") >>,
      TokT(SheetA) \o TokA(100, 1, << Ord("N") >>),
      TokA(0, 0, << >>) \o TokA(0, 0, << >>),
      TokT(SheetA) \o TokN(1) \o TokS(1) }

FairInputs ==
    {EncMap(<< >>, << EncLayer(size, TokT(SheetA) \o Concat(s)) >>) :
        size \in FairSizes, s \in SeqsUpTo(FairTokens, MaxFairTags)}
    \cup {EncMap(<< >>, << EncLayer(<< 1, 2 >>, s) >>) : s \in FairEdgeStreams}
    \cup {EncMap(<< EncTilesheet >>,
                 << EncLayer(<< 1, 1 >>, TokT(SheetA) \o TokS(1)), EncLayer(<< 1, 1 >>, s) >>) :
             s \in {TokS(2), TokT(SheetB) \o TokS(2), TokN(1)}}

InitTideFair ==
    /\ IdleTile
    /\ IdleMember
    /\ build \in Builds
    /\ T = "Map"
    /\ buffer \in FairInputs
    /\ cur = 0
    /\ pc = "blob"
    /\ result = Running
    /\ rdr = << >>
    /\ rdr_pos = 0
    /\ is_compressed = FALSE
    /\ compressed_size = None
    /\ name = << >>
    /\ v = None
    /\ IdleTable
    /\ IdleTide
    /\ IdleTexture

SpecTideFair == InitTideFair /\ [][NextTide]_vars /\ WF_vars(NextTide)

\* The scan of a layer is under way.
Scanning == pc \in {"rows", "cols", "frames"}

\* The scan of the layer is over: the layer is complete, or the decode failed.
ScanOver == pc \in {"layers", "done"}

\* A step of the scan that goes on and leaves the column where it is, other
\* than the start and the end of a row, consumes input.
C24_Step ==
    (/\ pc \in {"cols", "frames"}
     /\ pc' \in {"cols", "frames"}
     /\ x_pos' = x_pos) => buf_pos' > buf_pos

=============================================================================
